---- MODULE Spec2Model ----
(***************************************************************************)
(* Navigation session of sfcli (src/sfcli/interactive.py) over the remote  *)
(* store client (src/sfcli/client.py).  One action per user command; the   *)
(* answers of the remote store are the nondeterministic inputs.            *)
(***************************************************************************)
EXTENDS Integers, Sequences, FiniteSets, TLC

\* ---------------------------------------------------------------- bounds
MaxId == 2        \* record numbers per object type held by the store
MaxStack == 2     \* depth of the navigation stack explored
MaxQueryLen == 2  \* characters of a raw search query
MaxLimit == 2     \* largest limit given to a search
MaxSortLen == 3   \* records in a list given to sort
MaxRank == 1      \* distinct non-empty values of the sort field
MaxUpdates == 1   \* confirmed updates of the current record
MaxCalls == 2     \* calls of get_related_records on one client
MaxFields == 3    \* fields in the metadata given to the field choosers

\* ------------------------------------------------------- data of the store
None == "None"

Objects == {"Account", "Contact"}

\* A record identifier carries its object type (the key prefix of the store).
Ids == [t : Objects, n : 1..MaxId]

NoId == [t |-> None, n |-> 0]

\* Python's None for current_record
NoRecord == [Id |-> NoId, src |-> "none"]

\* A record (a dict) is known by its identifier and by the request that
\* produced it, which decides the fields it carries.
Rec(id, src) == [Id |-> id, src |-> src]

\* rows returned by a list request: ordered, one row per matching record
RECURSIVE RowsOf(_, _, _)
RowsOf(t, S, src) ==
    IF S = {} THEN <<>>
    ELSE LET m == CHOOSE x \in S : \A y \in S : x <= y
         IN <<Rec([t |-> t, n |-> m], src)>> \o RowsOf(t, S \ {m}, src)

\* the answers a list request can give: no row, or every record of the type
RowLists(t, src) == {<<>>, RowsOf(t, 1..MaxId, src)}

\* Account hierarchy held by the store: account n+1 is a child of account n,
\* account 1 is the ultimate parent of the others.
ParentOf(id) ==
    IF id.t = "Account" /\ id.n > 1 THEN [t |-> "Account", n |-> id.n - 1] ELSE NoId

UltimateOf(id) ==
    IF id.t = "Account" /\ id.n > 1 THEN [t |-> "Account", n |-> 1] ELSE NoId

ChildrenOf(id) ==
    IF id.t = "Account" /\ id.n < MaxId THEN {id.n + 1} ELSE {}

\* record.get('Name', record.get('Id', 'Record'))
RecordName(r) == "N" \o ToString(r.Id.n)

\* record.get('ParentId'): full records and the parent/ultimateparent/children
\* queries select ParentId
GetParentId(r) == ParentOf(r.Id)

\* record.get('Ultimate_Parent__c'): absent from the record fetched by
\* "parent <fields>", whose query selects Id, ParentId and the given fields
GetUltimateParent(r) == IF r.src = "parent_query" THEN NoId ELSE UltimateOf(r.Id)

\* ------------------------------------------------------------ session state
VARIABLES current_object,     \* self.current_object (None or an object type)
          current_records,    \* self.current_records (search results)
          current_record,     \* self.current_record (NoRecord for None)
          related_records,    \* self.related_records
          related_type,       \* self.related_type (None or a relationship name)
          navigation_stack,   \* self.navigation_stack, top = last element
          navigation_path,    \* self.navigation_path (breadcrumb)
          running,            \* the command loop of run() has not ended
          last,               \* the command just executed and how it ended
          pre,                \* the session fields before the last forward transition
          call,               \* the call of client.search_with_stats in progress
          listing,            \* the call of _sort_records in progress
          editing,            \* the update command in progress
          _object_cache,      \* the client's metadata memo, by object type
          relating,           \* the call of get_related_records in progress
          choosing            \* the metadata given to a field chooser, and its answer

session == <<current_object, current_records, current_record, related_records,
             related_type, navigation_path>>

vars == <<current_object, current_records, current_record, related_records,
          related_type, navigation_stack, navigation_path, running, last, pre,
          call, listing, editing, _object_cache, relating, choosing>>

\* the six session fields as one value
Snapshot == [current_object  |-> current_object,
             current_records |-> current_records,
             current_record  |-> current_record,
             related_records |-> related_records,
             related_type    |-> related_type,
             navigation_path |-> navigation_path]

\* how a command ended: cmd is the handler, outcome one of
\*   "ok"        the transition was made
\*   "rejected"  an error was displayed before any remote request
\*   "info"      an informational message, nothing to do
\*   "failed"    a remote request failed and the failure was displayed
\*   "crashed"   an exception left run()
\* requests counts the remote requests the command issued
Outcome(cmd, outcome, requests) == [cmd |-> cmd, outcome |-> outcome, requests |-> requests]

\* the forward transitions, which push a frame
Forward == {"select", "select_related", "cd", "related", "parent", "ultimateparent",
            "children"}

\* no call of the client is in progress
IdleCall ==
    [pc |-> "idle", object_type |-> None, query |-> <<>>, fields |-> <<>>,
     limit_flag |-> <<>>, limit |-> 0, cached |-> FALSE, log |-> <<>>,
     results |-> <<>>, raised |-> FALSE, total |-> 0, displayed |-> 0,
     suggestion |-> <<>>]

\* no update is in progress
IdleEditing ==
    [pc |-> "idle", field |-> None, new_value |-> "", confirmation |-> None,
     old_value |-> [type |-> None, text |-> ""],
     typed |-> [type |-> None, text |-> ""], outcome |-> None, writes |-> 0, updates |-> 0]

\* no related records are being fetched
IdleRelating ==
    [pc |-> "idle", object_type |-> None, relationship_name |-> None,
     actual_object |-> None, relationship_field |-> None, declared |-> FALSE,
     sent |-> <<>>, raised |-> FALSE, calls |-> 0, fetches |-> 0]

\* no metadata is given to a field chooser
IdleChoosing ==
    [pc |-> "idle", fields |-> <<>>, max_fields |-> 0, name_field |-> None,
     query_fields |-> <<>>]

\* no list is being sorted
IdleListing ==
    [pc |-> "idle", records |-> <<>>, descending |-> FALSE, result |-> <<>>,
     error |-> FALSE, displayed |-> FALSE, index |-> 0, record_id |-> 0]

NoSnapshot == [current_object |-> "", current_records |-> <<>>,
               current_record |-> NoRecord, related_records |-> <<>>,
               related_type |-> "", navigation_path |-> <<>>]

Init ==
    /\ current_object = None
    /\ current_records = <<>>
    /\ current_record = NoRecord
    /\ related_records = <<>>
    /\ related_type = None
    /\ navigation_stack = <<>>
    /\ navigation_path = <<>>
    /\ running = TRUE
    /\ last = Outcome("start", "ok", 0)
    /\ pre = NoSnapshot
    /\ call = IdleCall
    /\ listing = IdleListing
    /\ editing = IdleEditing
    /\ _object_cache = <<>>
    /\ relating = IdleRelating
    /\ choosing = IdleChoosing

\* ------------------------------------------------------------------ frames
\* A dict pushed on navigation_stack.  Keys a Python frame does not carry hold
\* their empty value here; has_path tells whether 'navigation_path' is a key.
Frame(type, object, records, record, rtype, path, has_path) ==
    [type |-> type, object |-> object, records |-> records, record |-> record,
     related_type |-> rtype, navigation_path |-> path, has_path |-> has_path]

Push(frame) == navigation_stack' = Append(navigation_stack, frame)

\* the explored stack depth
Room == Len(navigation_stack) < MaxStack

\* the frames the handlers push
SearchFrame ==
    Frame("search", current_object, current_records, NoRecord, None,
          navigation_path, TRUE)

CdFrame ==
    Frame("record", current_object, <<>>, current_record, None,
          navigation_path, TRUE)

RelatedCmdFrame ==
    Frame("record", current_object, <<>>, current_record, None, <<>>, FALSE)

\* a shortcut frame that does not hold the record
ShortcutFrame_NoRecord ==
    Frame("record", current_object, current_records, NoRecord, None, <<>>, FALSE)

ShortcutFrame ==
    Frame("record", current_object, current_records, current_record, None,
          <<>>, FALSE)

RelatedFrame ==
    Frame("related", current_object, related_records, current_record,
          related_type, navigation_path, TRUE)

\* --------------------------------------------------- remote store client
\* Answers of the remote store.  A request either fails (raises) or answers.
Failed == [ok |-> FALSE, rows |-> <<>>, record |-> NoRecord]

Rows(rows) == [ok |-> TRUE, rows |-> rows, record |-> NoRecord]

Record(r) == [ok |-> TRUE, rows |-> <<>>, record |-> r]

\* the class of the exception a failed request raises: a ValueError (a
\* response that does not decode) or any other exception
ExceptionClasses == {"ValueError", "Exception"}

\* client.get_record(object_type, record_id): the record, when the identifier
\* is one of that object type; the request can always fail
get_record(object_type, record_id) ==
    {Failed} \cup
    (IF object_type \in Objects /\ record_id \in Ids /\ record_id.t = object_type
     THEN {Record(Rec(record_id, "get"))} ELSE {})

\* client.search_with_stats(object_type, query): rows of the type, or a failure
search_with_stats(object_type) ==
    {Failed} \cup {Rows(rows) : rows \in RowLists(object_type, "search")}

\* child relationships declared in the metadata of the store
childRelationships(object_type) ==
    IF object_type = "Account"
    THEN {[name |-> "Contacts", object |-> "Contact"],
          [name |-> "Partners__r", object |-> "Contact"]}
    ELSE {}

\* client.get_related_records(object_type, record_id, relationship_name):
\* rows of the child type of the declared relationship, or a failure (an
\* undeclared relationship that no convention resolves, or a failed request)
get_related_records(object_type, relationship_name) ==
    LET declared == {r \in childRelationships(object_type) : r.name = relationship_name}
    IN  {Failed} \cup
        {Rows(rows) : rows \in UNION {RowLists(r.object, "related") : r \in declared}}

\* client.query(soql) for "SELECT <fields> FROM Account WHERE Id = '<id>'"
query_by_id(id, src) ==
    {Failed, Rows(<<>>)} \cup
    (IF id \in Ids /\ id.t = "Account" THEN {Rows(<<Rec(id, src)>>)} ELSE {})

\* client.query(soql) for the child accounts of an account: the count query
\* and the record query
query_children(id) ==
    {Failed, Rows(RowsOf("Account", ChildrenOf(id), "children"))}

\* ------------------------------------------------------- command arguments
\* the argument strings given to select; int() and str.isdigit() of Python
MaxArg == MaxId + 1

Digits == {ToString(i) : i \in 0..MaxArg}

SelectArgs == Digits \cup {"-1", "abc"}

\* int(s) raises ValueError unless s is a decimal integer
IsInt(s) == \E i \in -1..MaxArg : ToString(i) = s

int(s) == CHOOSE i \in -1..MaxArg : ToString(i) = s

\* relationship names typed after cd / related
RelationshipArgs == {"Contacts", "Partners__c"}

\* object_mapping.get(related_type, related_type) of _handle_select_related
object_mapping(name) ==
    CASE name = "Contacts" -> "Contact"
      [] name = "Opportunities" -> "Opportunity"
      [] name = "Cases" -> "Case"
      [] name = "Accounts" -> "Account"
      [] OTHER -> name

\* --------------------------------------------------------------- handlers
\* pre holds the session fields from before a forward transition, while that
\* transition is the last command or has just been undone by back
Done(cmd, outcome, requests) ==
    /\ UNCHANGED <<call, listing, editing, _object_cache, relating, choosing>>
    /\ last' = Outcome(cmd, outcome, requests)
    /\ pre' = IF cmd \in Forward /\ outcome = "ok" THEN Snapshot
              ELSE IF cmd = "back" /\ last.cmd \in Forward /\ last.outcome = "ok" THEN pre
              ELSE NoSnapshot

Reject_ClearsResults(cmd, outcome, requests) ==
    /\ Done(cmd, outcome, requests)
    /\ current_records' = <<>>
    /\ UNCHANGED <<current_object, current_record, related_records, related_type,
                   navigation_path, navigation_stack, running>>

\* a command that only displays a message
Reject(cmd, outcome, requests) ==
    /\ Done(cmd, outcome, requests)
    /\ UNCHANGED <<session, navigation_stack, running>>

\* _go_back with an empty stack: is there anything to clear
SomethingShown ==
    current_records # <<>> \/ current_record # NoRecord \/ related_records # <<>>

\* the breadcrumb a popped frame restores
RestoredPath(frame) ==
    IF frame.has_path THEN frame.navigation_path ELSE <<>>

_go_back ==
    /\ UNCHANGED running
    /\ IF navigation_stack = <<>>
       THEN /\ UNCHANGED navigation_stack
            /\ IF SomethingShown
               THEN /\ current_object' = None
                    /\ current_records' = <<>>
                    /\ current_record' = NoRecord
                    /\ related_records' = <<>>
                    /\ related_type' = None
                    /\ navigation_path' = <<>>
                    /\ Done("back", "ok", 0)
               ELSE /\ UNCHANGED session
                    /\ Done("back", "info", 0)
       ELSE LET previous_context == navigation_stack[Len(navigation_stack)]
            IN  /\ navigation_stack' = SubSeq(navigation_stack, 1, Len(navigation_stack) - 1)
                /\ navigation_path' = RestoredPath(previous_context)
                /\ current_object' = previous_context.object
                /\ CASE previous_context.type = "search" ->
                          /\ current_records' = previous_context.records
                          /\ current_record' = NoRecord
                          /\ related_records' = <<>>
                          /\ related_type' = None
                     [] previous_context.type = "record" ->
                          /\ current_record' = previous_context.record
                          /\ current_records' = <<>>
                          /\ related_records' = <<>>
                          /\ related_type' = None
                     [] previous_context.type = "related" ->
                          /\ current_record' = previous_context.record
                          /\ related_records' = previous_context.records
                          /\ related_type' = previous_context.related_type
                          /\ UNCHANGED current_records
                /\ Done("back", "ok", 0)

\* what the except branch of _handle_search leaves in current_object
SearchFailedObject(object_type) == None

\* a search that keeps the navigation stack
StackAfterSearch_Kept == navigation_stack

\* the navigation stack after a successful search
StackAfterSearch == <<>>

\* search <Object> <query>, with the answer of client.search_with_stats
_handle_search(object_type, answer) ==
    /\ UNCHANGED running
    /\ IF answer.ok
       THEN /\ current_object' = object_type
            /\ current_records' = answer.rows
            /\ navigation_stack' = StackAfterSearch
            /\ current_record' = NoRecord
            /\ related_records' = <<>>
            /\ related_type' = None
            /\ navigation_path' = <<>>
            /\ Done("search", "ok", 1)
       ELSE /\ current_object' = SearchFailedObject(object_type)
            /\ current_records' = <<>>
            /\ UNCHANGED <<current_record, related_records, related_type,
                           navigation_stack, navigation_path>>
            /\ Done("search", "failed", 1)

\* what a failed get leaves in current_object: line 493 has assigned it
GetFailedObject(object_type) == object_type

\* get <Object> <ID>, with the answer of client.get_record
_handle_get(object_type, record_id, answer) ==
    /\ UNCHANGED <<running, current_records, related_records, related_type,
                   navigation_stack, navigation_path>>
    /\ IF answer.ok
       THEN /\ current_object' = object_type
            /\ current_record' = answer.record
            /\ Done("get", "ok", 1)
       ELSE /\ current_object' = GetFailedObject(object_type)
            /\ UNCHANGED current_record
            /\ Done("get", "failed", 1)

\* the check without its lower bound: index < len(records)
ValidIndex_NoLowerBound(args, records) ==
    int(args) - 1 < Len(records)

\* 0 <= index < len(records), index = int(args) - 1
ValidIndex(args, records) ==
    0 <= int(args) - 1 /\ int(args) - 1 < Len(records)

\* the row one place before the chosen one: records[index - 1]
Item_Previous(records, index) ==
    IF index \in DOMAIN records THEN records[index] ELSE NoRecord

\* records[index] of a Python list: a negative index counts from the end; an
\* index outside the list has no record (IndexError)
Item(records, index) ==
    LET position == IF index < 0 THEN Len(records) + index + 1 ELSE index + 1
    IN  IF position \in DOMAIN records THEN records[position] ELSE NoRecord

\* the stack after _handle_select's fetch raised: the frame was pushed at
\* lines 571-576, before the fetch of line 579
StackAfterFailedSelect == Append(navigation_stack, SearchFrame)

\* select <n> on the search results
_handle_select(args) ==
    IF ~IsInt(args)
    THEN Reject("select", "rejected", 0)         \* except ValueError
    ELSE IF ~ValidIndex(args, current_records)
    THEN Reject("select", "rejected", 0)         \* Invalid selection
    ELSE LET record == Item(current_records, int(args) - 1)
         IN  \E answer \in get_record(current_object, record.Id) :
               IF answer.ok
               THEN /\ Push(SearchFrame)
                    /\ current_record' = answer.record
                    /\ current_records' = <<>>
                    /\ navigation_path' = <<>>
                    /\ UNCHANGED <<current_object, related_records, related_type, running>>
                    /\ Done("select", "ok", 1)
               ELSE /\ navigation_stack' = StackAfterFailedSelect
                    /\ UNCHANGED session
                    /\ \E error \in ExceptionClasses :
                         IF error = "ValueError"
                         THEN /\ UNCHANGED running       \* except ValueError
                              /\ Done("select", "failed", 1)
                         ELSE /\ running' = FALSE        \* the exception leaves run()
                              /\ Done("select", "crashed", 1)

\* select <n> on the related list
_handle_select_related(args) ==
    IF ~IsInt(args)
    THEN Reject("select_related", "rejected", 0)
    ELSE IF ~ValidIndex(args, related_records)
    THEN Reject("select_related", "rejected", 0)
    ELSE LET record == Item(related_records, int(args) - 1)
             actual_object == object_mapping(related_type)
         IN  \E answer \in get_record(actual_object, record.Id) :
               IF answer.ok
               THEN /\ Push(RelatedFrame)
                    /\ current_object' = actual_object
                    /\ current_record' = answer.record
                    /\ related_records' = <<>>
                    /\ related_type' = None
                    /\ navigation_path' = <<>>
                    /\ UNCHANGED <<current_records, running>>
                    /\ Done("select_related", "ok", 1)
               ELSE Reject("select_related", "failed", 1)

\* a breadcrumb that every cd starts afresh from the current record
CdPath_Reseeded(relationship_name) ==
    <<current_object \o ":" \o RecordName(current_record), relationship_name>>

\* the breadcrumb after cd <relationship>
CdPath(relationship_name) ==
    IF navigation_path = <<>>
    THEN <<current_object \o ":" \o RecordName(current_record), relationship_name>>
    ELSE Append(navigation_path, relationship_name)

\* lines 706-727 of _handle_cd: the related records were fetched
CdEnter(related, relationship_name, requests) ==
    /\ Push(CdFrame)
    /\ related_records' = related
    /\ related_type' = relationship_name
    /\ navigation_path' = CdPath(relationship_name)
    /\ UNCHANGED <<current_object, current_records, current_record, running>>
    /\ Done("cd", "ok", requests)

\* the __r spelling that cd tries first for a name ending in __c
RSpelling(name) == IF name = "Partners__c" THEN "Partners__r" ELSE name

\* cd <relationship>
_handle_cd(args) ==
    IF current_record = NoRecord
    THEN Reject("cd", "rejected", 0)
    ELSE IF RSpelling(args) # args
    THEN \E first \in get_related_records(current_object, RSpelling(args)) :
           IF first.ok
           THEN CdEnter(first.rows, RSpelling(args), 1)
           ELSE \E second \in get_related_records(current_object, args) :
                  IF second.ok
                  THEN CdEnter(second.rows, args, 2)
                  ELSE Reject("cd", "failed", 2)
    ELSE \E answer \in get_related_records(current_object, args) :
           IF answer.ok
           THEN CdEnter(answer.rows, args, 1)
           ELSE Reject("cd", "failed", 1)

\* a related that pushes its frame before the fetch, as _handle_select does
StackAfterFailedRelated_Pushed == Append(navigation_stack, RelatedCmdFrame)

\* the stack after the fetch of related raised: the push of lines 645-649
\* comes after the fetch of line 638
StackAfterFailedRelated == navigation_stack

\* related <relationship>
_handle_related(args) ==
    IF current_record = NoRecord
    THEN Reject("related", "rejected", 0)
    ELSE \E answer \in get_related_records(current_object, args) :
           IF answer.ok
           THEN /\ Push(RelatedCmdFrame)
                /\ related_records' = answer.rows
                /\ related_type' = args
                /\ UNCHANGED <<current_object, current_records, current_record,
                               navigation_path, running>>
                /\ Done("related", "ok", 1)
           ELSE /\ navigation_stack' = StackAfterFailedRelated
                /\ UNCHANGED <<session, running>>
                /\ Done("related", "failed", 1)

\* lines 1094-1105 / 1158-1169: jump to the fetched (ultimate) parent
JumpTo(cmd, record) ==
    /\ Push(ShortcutFrame)
    /\ current_record' = record
    /\ related_records' = <<>>
    /\ related_type' = None
    /\ UNCHANGED <<current_object, current_records, navigation_path, running>>
    /\ Done(cmd, "ok", 1)

\* the body shared by parent and ultimateparent, which differ in the link
\* field read and in the fields of the explicit query
Shortcut(cmd, link, with_fields, src) ==
    IF current_record = NoRecord
    THEN Reject(cmd, "rejected", 0)
    ELSE IF current_object # "Account"
    THEN Reject(cmd, "rejected", 0)
    ELSE IF link = NoId
    THEN Reject(cmd, "info", 0)
    ELSE IF with_fields
    THEN \E result \in query_by_id(link, src) :
           IF ~result.ok
           THEN Reject(cmd, "failed", 1)
           ELSE IF result.rows = <<>>
           THEN Reject(cmd, "notfound", 1)
           ELSE JumpTo(cmd, result.rows[1])
    ELSE \E answer \in get_record("Account", link) :
           IF answer.ok
           THEN JumpTo(cmd, answer.record)
           ELSE Reject(cmd, "failed", 1)

\* parent [fields]
_handle_parent(with_fields) ==
    Shortcut("parent", GetParentId(current_record), with_fields, "parent_query")

\* ultimateparent [fields]
_handle_ultimate_parent(with_fields) ==
    Shortcut("ultimateparent", GetUltimateParent(current_record), with_fields,
             "ultimate_query")

\* children [fields]
_handle_children ==
    IF current_record = NoRecord
    THEN Reject("children", "rejected", 0)
    ELSE IF current_object # "Account"
    THEN Reject("children", "rejected", 0)
    ELSE \E count_result \in query_children(current_record.Id) :
           IF ~count_result.ok
           THEN Reject("children", "failed", 1)
           ELSE IF Len(count_result.rows) = 0
           THEN Reject("children", "info", 1)
           ELSE \E result \in query_children(current_record.Id) :
                  IF ~result.ok
                  THEN Reject("children", "failed", 2)
                  ELSE /\ Push(ShortcutFrame)
                       /\ related_records' = result.rows
                       /\ related_type' = "Account"
                       /\ UNCHANGED <<current_object, current_records, current_record,
                                      navigation_path, running>>
                       /\ Done("children", "ok", 2)

\* ------------------------------------------------- _execute_command
\* select <n>
Select(args) ==
    /\ running
    /\ IF related_records # <<>>
       THEN Room /\ _handle_select_related(args)
       ELSE IF current_records # <<>>
       THEN Room /\ _handle_select(args)
       ELSE Reject("select", "rejected", 0)

\* a dispatch of the bare number that looks at the search results first
BareTarget_SearchFirst ==
    IF current_records # <<>> THEN "search"
    ELSE IF related_records # <<>> THEN "related"
    ELSE "none"

\* lines 182-189: the list a bare number selects from
BareTarget ==
    IF related_records # <<>> THEN "related"
    ELSE IF current_records # <<>> THEN "search"
    ELSE "none"

\* <n>: an input that is only digits
Bare(args) ==
    /\ running
    /\ args \in Digits
    /\ CASE BareTarget = "related" -> Room /\ _handle_select_related(args)
         [] BareTarget = "search" -> Room /\ _handle_select(args)
         [] OTHER -> Reject("select", "rejected", 0)

Back == running /\ _go_back

\* the words typed from --limit on: none, the flag alone, the flag with a
\* word that is no number, and the flag with a number
LimitFlags ==
    {<<>>, <<"--limit">>, <<"--limit", "abc">>, <<"--limit", "5000">>}
       \cup {<<"--limit", ToString(n)>> : n \in 1..MaxLimit}

\* lines 390-399: limit_parts[1].strip().split()[0] raises IndexError and
\* int(limit_value) raises ValueError
LimitRejected(limit_flag) ==
    /\ limit_flag # <<>>
    /\ IF Len(limit_flag) < 2 THEN TRUE
       ELSE /\ limit_flag[2] # "5000"
            /\ \A n \in 1..MaxLimit : ToString(n) # limit_flag[2]

\* a value of a record field: its Python type and its text
Typed(type, text) == [type |-> type, text |-> text]

\* the fields of the record that is updated
InitialFields ==
    [Active |-> Typed("bool", "True"), Count |-> Typed("int", "5"),
     Score |-> Typed("float", "1.5"), Phone |-> Typed("str", "555"),
     Fax |-> Typed("NoneType", "None")]

\* str.lower() on the strings of the model
lower(s) ==
    CASE s = "YES" -> "yes"
      [] s = " YES " -> " yes "
      [] s = "SCORE" -> "score"
      [] s = "Active" -> "active"
      [] s = "Count" -> "count"
      [] s = "Score" -> "score"
      [] s = "Phone" -> "phone"
      [] s = "Fax" -> "fax"
      [] s = "Nope" -> "nope"
      [] OTHER -> s

Search ==
    /\ running
    /\ \E object_type \in Objects :
         \E answer \in search_with_stats(object_type) :
           _handle_search(object_type, answer)

\* the arguments typed after get: the last account, and the first contact
\* under the wrong object type
GetObjects == {"Account"}

GetIds == {[t |-> "Account", n |-> MaxId], [t |-> "Contact", n |-> 1]}

Get ==
    /\ running
    /\ \E object_type \in GetObjects, record_id \in GetIds :
         \E answer \in get_record(object_type, record_id) :
           _handle_get(object_type, record_id, answer)

Cd ==
    /\ running
    /\ Room
    /\ \E args \in RelationshipArgs : _handle_cd(args)

RelatedCmd ==
    /\ running
    /\ Room
    /\ \E args \in RelationshipArgs : _handle_related(args)

Parent == running /\ Room /\ \E with_fields \in BOOLEAN : _handle_parent(with_fields)

UltimateParent ==
    running /\ Room /\ \E with_fields \in BOOLEAN : _handle_ultimate_parent(with_fields)

Children == running /\ Room /\ _handle_children

\* exit / quit / end of input: run() returns and the session is discarded
Exit ==
    /\ running
    /\ running' = FALSE
    /\ current_object' = None
    /\ current_records' = <<>>
    /\ current_record' = NoRecord
    /\ related_records' = <<>>
    /\ related_type' = None
    /\ navigation_stack' = <<>>
    /\ navigation_path' = <<>>
    /\ Done("exit", "ok", 0)

Next ==
    \/ \E args \in SelectArgs : Select(args)
    \/ \E args \in Digits : Bare(args)
    \/ Back
    \/ Search
    \/ Get
    \/ Cd
    \/ RelatedCmd
    \/ Parent
    \/ UltimateParent
    \/ Children
    \/ Exit

Spec == Init /\ [][Next]_vars

\* lines 383-427: the search ends with a usage message
SearchRejected(parts, limit_flag) ==
    IF parts = <<>> /\ limit_flag = <<>> THEN TRUE
    ELSE IF LimitRejected(limit_flag) THEN TRUE
    ELSE Len(parts) # 2

\* a search that returns before the try block of line 429; parts is what
\* args.split(maxsplit=1) leaves once the flag is cut
SearchUsage ==
    /\ running
    /\ \E parts \in {<<>>, <<"Account">>, <<"Account", "x">>}, limit_flag \in LimitFlags :
         /\ SearchRejected(parts, limit_flag)
         /\ Reject("search", "rejected", 0)

\* lines 481-488: a get whose args.split() are not two words
GetUsage ==
    /\ running
    /\ \E parts \in {<<>>, <<"Account">>, <<"Account", "001", "x">>} :
         /\ Len(parts) # 2
         /\ Reject("get", "rejected", 0)

\* update on a record, as far as the messages of lines 982-1003: a missing
\* value, and a field that no record of the store has; an update of a field
\* the record has goes on to the confirmation prompt
Update ==
    /\ running
    /\ current_record # NoRecord
    /\ \E parts \in {<<"Phone">>, <<"Nope", "x">>} :
         /\ IF Len(parts) # 2 THEN TRUE
            ELSE \A key \in DOMAIN InitialFields : lower(key) # lower(parts[1])
         /\ Reject("update", "rejected", 0)

\* the last branch of _execute_command (lines 279-280): a command that is not
\* known, or one that needs a current record when there is none
Unknown ==
    /\ running
    /\ \E command \in {"view", "show", "update", "frob"} :
         /\ command \in {"view", "show", "update"} => current_record = NoRecord
         /\ Reject(command, "rejected", 0)

\* the session with the commands that end with a message as well
CommandNext ==
    \/ Next
    \/ SearchUsage
    \/ GetUsage
    \/ Update
    \/ Unknown

CommandSpec == Init /\ [][CommandNext]_vars

\* ------------------------------------------------- the display commands
\* a remote request of a display handler, which answers or raises
Requested(cmd) ==
    \E outcome \in {"ok", "failed"} : Reject(cmd, outcome, 1)

\* help (lines 199-200) and clear (lines 222-223)
Help ==
    /\ running
    /\ \E command \in {"help", "clear"} : Reject(command, "ok", 0)

\* _handle_ls (732-791): the list that is held is displayed; on a record the
\* child relationships are asked of the store
Ls ==
    /\ running
    /\ IF related_records # <<>> \/ current_records # <<>> THEN Reject("ls", "ok", 0)
       ELSE IF current_record # NoRecord THEN Requested("ls")
       ELSE Reject("ls", "info", 0)

\* _handle_ls_with_pipe (793-843): what follows the pipe is parsed, and the
\* list that is held is sorted by a field that its records have or lack
LsSort ==
    /\ running
    /\ \E pipe \in {"", "grep", "sort", "sort Name -x", "sort Name", "sort Nope"} :
         IF pipe \notin {"sort Name", "sort Nope"} THEN Reject("ls_sort", "rejected", 0)
         ELSE IF related_records # <<>> \/ current_records # <<>>
         THEN Reject("ls_sort", IF pipe = "sort Name" THEN "ok" ELSE "failed", 0)
         ELSE Reject("ls_sort", "info", 0)

\* _handle_list (515-560): without arguments the list or record that is held
\* is displayed, line 521 reading the name of the current record; list
\* objects asks the store
List ==
    /\ running
    /\ \E args \in {"", "objects", "x"} :
         IF args = "x" THEN Reject("list", "rejected", 0)
         ELSE IF args = "objects" THEN Requested("list")
         ELSE IF related_records # <<>> /\ current_record = NoRecord
         THEN /\ running' = FALSE                 \* None has no get
              /\ UNCHANGED <<session, navigation_stack>>
              /\ Done("list", "crashed", 0)
         ELSE IF SomethingShown THEN Reject("list", "ok", 0)
         ELSE Reject("list", "info", 0)

\* view (598-603) and show (894-975) on a record
View ==
    /\ running
    /\ current_record # NoRecord
    /\ \/ Reject("view", "ok", 0)
       \/ \E args \in {"", "all", "Name", "Nope"} :
            Reject("show", IF args = "" THEN "rejected" ELSE "ok", 0)

\* fields (869-892), relationships (1512-1560) and history (1386-1510) on a
\* record: each asks the store, history after it has parsed its arguments
RecordDetails ==
    /\ running
    /\ \/ \E command \in {"fields", "relationships", "history"} :
            IF current_record = NoRecord
            THEN Reject(command, "rejected", 0)     \* Unknown command
            ELSE Requested(command)
       \/ /\ current_record # NoRecord
          /\ Reject("history", "rejected", 0)       \* a field the record lacks

\* _handle_describe (1255-1337): the typed object type or the current one
Describe ==
    /\ running
    /\ \E args \in {"", "Account"} :
         IF args = "" /\ current_object = None THEN Reject("describe", "rejected", 0)
         ELSE Requested("describe")

\* client.execute_query(soql): the rows of the query, or a failure
execute_query(args) ==
    {Failed} \cup {Rows(rows) : rows \in RowLists("Account", "query")}

\* a query that keeps its rows as the result list
_handle_query_Keeps(args) ==
    IF args = "" THEN Reject("query", "rejected", 0)
    ELSE \E answer \in execute_query(args) :
           IF answer.ok
           THEN /\ current_records' = answer.rows
                /\ UNCHANGED <<current_object, current_record, related_records,
                               related_type, navigation_path, navigation_stack, running>>
                /\ Done("query", "ok", 1)
           ELSE Reject("query", "failed", 1)

\* _handle_query (499-513): the rows are displayed and kept nowhere
_handle_query(args) ==
    IF args = "" THEN Reject("query", "rejected", 0)
    ELSE \E answer \in execute_query(args) :
           Reject("query", IF answer.ok THEN "ok" ELSE "failed", 1)

Query ==
    /\ running
    /\ \E args \in {"", "SELECT Id FROM Account"} : _handle_query(args)

\* the session with the commands that display and do not navigate
DisplayNext ==
    \/ Next
    \/ Help
    \/ Ls
    \/ LsSort
    \/ List
    \/ View
    \/ RecordDetails
    \/ Describe
    \/ Query

DisplaySpec == Init /\ [][DisplayNext]_vars

\* ------------------------------------------- client.search_with_stats
\* the session part of the state, which a call of the client leaves alone
frontend == <<session, navigation_stack, running, last, pre>>

\* object types given to a search
ClientObjects == {"Account", "Contact", "Case"}

Field(name, type) == [name |-> name, type |-> type]

\* metadata['fields'] of the store's describe, in the store's order
FieldsOf(object_type) ==
    CASE object_type = "Account" ->
           <<Field("Id", "id"), Field("Name", "string"), Field("ParentId", "reference"),
             Field("Ultimate_Parent__c", "reference"), Field("ShippingStreet", "textarea"),
             Field("ShippingCity", "string"), Field("ShippingState", "string"),
             Field("ShippingPostalCode", "string"), Field("Phone", "phone")>>
      [] object_type = "Contact" ->
           <<Field("Id", "id"), Field("Name", "string"), Field("Phone", "phone")>>
      [] OTHER ->
           <<Field("Id", "id"), Field("IsDeleted", "boolean"),
             Field("CaseNumber", "string"), Field("Subject", "string")>>

FieldNames(object_type) ==
    {FieldsOf(object_type)[i].name : i \in DOMAIN FieldsOf(object_type)}

\* a chooser that takes every field called Name for the name field
NameFieldOf_AnyName(fields) ==
    LET named == {i \in DOMAIN fields : fields[i].name = "Name"}
        strings == {i \in DOMAIN fields :
                      fields[i].type = "string" /\ fields[i].name # "Id"}
    IN  IF named # {} THEN "Name"
        ELSE IF strings # {}
        THEN fields[CHOOSE i \in strings : \A j \in strings : i <= j].name
        ELSE "Id"

\* lines 573-581: 'Name' when it is a string field, else the first string
\* field other than Id, else 'Id'
NameFieldOf(fields) ==
    LET named == {i \in DOMAIN fields :
                    fields[i].name = "Name" /\ fields[i].type = "string"}
        strings == {i \in DOMAIN fields :
                      fields[i].type = "string" /\ fields[i].name # "Id"}
    IN  IF named # {} THEN "Name"
        ELSE IF strings # {}
        THEN fields[CHOOSE i \in strings : \A j \in strings : i <= j].name
        ELSE "Id"

\* _get_name_field: the name field of the metadata that describe_object gives
_get_name_field(object_type) == NameFieldOf(FieldsOf(object_type))

\* a raw query is a string: a sequence of characters, in which acount stands
\* for the six characters of that misspelt word
Quote == "\""

Misspelt == "acount"

Chars == {"a", " ", "\t", Quote, Misspelt}

QueryTerms == UNION {[1..n -> Chars] : n \in 0..MaxQueryLen}

\* lines 101-105: the search term of the full-text request
search_term(query) ==
    IF query # <<>> /\ query[1] = Quote /\ query[Len(query)] = Quote
    THEN query
    ELSE IF \E i \in DOMAIN query : query[i] = " "
    THEN <<Quote>> \o query \o <<Quote>>
    ELSE query

\* fields=None
NoFields == <<>>

FieldInputs == {NoFields, <<"Name", "Phone">>}

AccountColumns(name) ==
    <<"Id", name, "ParentId", "Ultimate_Parent__c", "ShippingStreet", "ShippingCity",
      "ShippingState", "ShippingPostalCode">>

\* lines 91-97: the fields the full-text request returns
fields_str(fields, object_type) ==
    IF fields # NoFields THEN fields
    ELSE IF object_type = "Account" THEN AccountColumns("Name")
    ELSE <<"Id", "Name">>

\* lines 120-125 and 145-150: the fields of the fallback query
soql_fields(fields, object_type, name_field) ==
    IF fields # NoFields THEN fields
    ELSE IF object_type = "Account" THEN AccountColumns(name_field)
    ELSE <<"Id", name_field>>

\* f"{fields}": the text Python gives the list itself, or None
PyFormat(fields) ==
    IF fields = NoFields THEN <<"None">> ELSE <<"[">> \o fields \o <<"]">>

\* the select list of the fallback query of the except branch (line 154)
ExceptSelect(fields, object_type, name_field) == PyFormat(fields)

\* a query without LIMIT
NoLimit == 0

NoWhere == [field |-> None, like |-> <<>>]

\* WHERE <name_field> LIKE '%<query>%'
Like(name_field, query) == [field |-> name_field, like |-> query]

\* a request to the store
Request(kind, object, select, term, where, order, limit) ==
    [kind |-> kind, object |-> object, select |-> select, term |-> term,
     where |-> where, order |-> order, limit |-> limit]

\* line 107
sosl(c) ==
    Request("sosl", c.object_type, fields_str(c.fields, c.object_type),
            search_term(c.query), NoWhere, "Name", c.limit)

\* lines 127-133 and 153-159
soql(c, select) ==
    Request("soql", c.object_type, select, <<>>,
            Like(_get_name_field(c.object_type), c.query),
            _get_name_field(c.object_type), c.limit)

\* lines 61-65
count_soql(c) ==
    Request("count", c.object_type, <<"COUNT()">>, <<>>,
            Like(_get_name_field(c.object_type), c.query), None, NoLimit)

\* obj.describe() of describe_object
describe(c) ==
    Request("describe", c.object_type, <<>>, <<>>, NoWhere, None, NoLimit)

\* the store knows every field the request names
WellFormed(request) ==
    CASE request.kind = "sosl" ->
           {request.select[i] : i \in DOMAIN request.select} \cup {request.order}
              \subseteq FieldNames(request.object)
      [] request.kind = "soql" ->
           {request.select[i] : i \in DOMAIN request.select}
              \cup {request.where.field, request.order}
              \subseteq FieldNames(request.object)
      [] request.kind = "count" -> request.where.field \in FieldNames(request.object)
      [] OTHER -> TRUE

\* what the store answers to a request: it fails, or it refuses a request
\* that names an unknown field, or it answers with n rows (a total, for the
\* count query)
Answers(request, sizes) ==
    {[answer |-> "failed", n |-> 0]} \cup
    (IF WellFormed(request)
     THEN {[answer |-> "ok", n |-> n] : n \in sizes}
     ELSE {[answer |-> "malformed", n |-> 0]})

Sent(request, reply) == [request |-> request, answer |-> reply.answer, n |-> reply.n]

\* the total reported when the count could not be had (lines 67-69)
CountFailedTotal_Zero(results) == 0

CountFailedTotal(results) == Len(results)

\* lines 388-394: the limit given to search_with_stats
LimitOf(limit_flag) ==
    IF limit_flag = <<>> THEN 200
    ELSE IF limit_flag[2] = "5000" THEN 5000
    ELSE CHOOSE n \in 1..MaxLimit : ToString(n) = limit_flag[2]

\* the rows a request with that limit can return, from a store that holds
\* MaxLimit matching records
Available(limit) == IF limit < MaxLimit THEN limit ELSE MaxLimit

\* search_with_stats(object_type, query, limit, fields) is called (line 431),
\* with the limit of lines 387-399
BeginSearch ==
    /\ call.pc = "idle"
    /\ \E object_type \in ClientObjects, query \in QueryTerms,
          limit_flag \in {flag \in LimitFlags : ~LimitRejected(flag)},
          fields \in FieldInputs, cached \in BOOLEAN :
         call' = [IdleCall EXCEPT
                    !.pc = "sosl", !.object_type = object_type, !.query = query,
                    !.fields = fields, !.limit_flag = limit_flag,
                    !.limit = LimitOf(limit_flag), !.cached = cached]
    /\ UNCHANGED <<frontend, listing, editing, _object_cache, relating, choosing>>

\* line 109: self.sf.search(sosl)
SoslRequest ==
    /\ call.pc = "sosl"
    /\ \E reply \in Answers(sosl(call), {0, Available(call.limit)}) :
         call' = [call EXCEPT
                    !.log = Append(@, Sent(sosl(call), reply)),
                    !.results = RowsOf(call.object_type, 1..reply.n, "sosl"),
                    !.pc = IF reply.answer # "ok" THEN "except_name"
                           ELSE IF reply.n = 0 THEN "try_name"
                           ELSE "count_name"]
    /\ UNCHANGED <<frontend, listing, editing, _object_cache, relating, choosing>>

\* where a call goes when the name field is known
AfterName(pc) ==
    CASE pc = "try_name" -> "try_soql"
      [] pc = "except_name" -> "except_soql"
      [] OTHER -> "count_soql"

\* _get_name_field at lines 119, 143 and 59: describe_object asks the store
\* unless the metadata is cached
NameLookup ==
    /\ call.pc \in {"try_name", "except_name", "count_name"}
    /\ IF call.cached
       THEN call' = [call EXCEPT !.pc = AfterName(call.pc)]
       ELSE \E reply \in Answers(describe(call), {0}) :
              call' = [call EXCEPT
                         !.log = Append(@, Sent(describe(call), reply)),
                         !.cached = (reply.answer = "ok"),
                         !.pc = IF reply.answer = "ok" THEN AfterName(call.pc)
                                ELSE IF call.pc = "try_name" THEN "except_name"
                                ELSE "done",
                         !.raised = (reply.answer # "ok" /\ call.pc = "except_name"),
                         !.total = IF reply.answer # "ok" /\ call.pc = "count_name"
                                   THEN CountFailedTotal(call.results) ELSE @]
    /\ UNCHANGED <<frontend, listing, editing, _object_cache, relating, choosing>>

\* lines 135-136 and 161-162: self.sf.query(soql)
FallbackRequest ==
    /\ call.pc \in {"try_soql", "except_soql"}
    /\ LET name_field == _get_name_field(call.object_type)
           select == IF call.pc = "try_soql"
                     THEN soql_fields(call.fields, call.object_type, name_field)
                     ELSE ExceptSelect(call.fields, call.object_type, name_field)
       IN  \E reply \in Answers(soql(call, select), {0, Available(call.limit)}) :
             call' = [call EXCEPT
                        !.log = Append(@, Sent(soql(call, select), reply)),
                        !.results = RowsOf(call.object_type, 1..reply.n, "soql"),
                        !.pc = IF reply.answer = "ok" THEN "count_name"
                               ELSE IF call.pc = "try_soql" THEN "except_name"
                               ELSE "done",
                        !.raised = (reply.answer # "ok" /\ call.pc = "except_soql")]
    /\ UNCHANGED <<frontend, listing, editing, _object_cache, relating, choosing>>

\* the totals the store can give for the count query of lines 60-64, which
\* counts the records whose name field is like the query: at least the rows
\* that the fallback query found with that filter, but any number when the
\* rows came from the full-text request, which looks at all the fields
Totals(results) ==
    IF results # <<>> /\ results[1].src = "sosl"
    THEN 0..(Len(results) + 1)
    ELSE {Len(results), Len(results) + 1}

\* lines 66-69: self.sf.query(count_soql)
CountRequest ==
    /\ call.pc = "count_soql"
    /\ \E reply \in Answers(count_soql(call), Totals(call.results)) :
         call' = [call EXCEPT
                    !.log = Append(@, Sent(count_soql(call), reply)),
                    !.total = IF reply.answer = "ok" THEN reply.n
                              ELSE CountFailedTotal(call.results),
                    !.pc = "done"]
    /\ UNCHANGED <<frontend, listing, editing, _object_cache, relating, choosing>>

\* the first word of a query that starts with one: query.split() cuts at
\* whitespace
FirstWord(query) ==
    LET stops == {i \in DOMAIN query : query[i] \in {" ", "\t"}}
        n == IF stops = {} THEN Len(query)
             ELSE (CHOOSE i \in stops : \A j \in stops : i <= j) - 1
    IN  SubSeq(query, 1, n)

\* get_close_matches(word.lower(), common_terms, n=1, cutoff=0.6) on the words
\* of the model: a word around one acount is closest to account, a word around
\* two is closest to contact, and no other word is close to a term
Corrected(word) ==
    LET k == Cardinality({i \in DOMAIN word : word[i] = Misspelt})
    IN  IF k = 1 THEN <<"account">> ELSE IF k = 2 THEN <<"contact">> ELSE word

\* lines 471-474: the query with every corrected word replaced
RECURSIVE suggested_query(_)
suggested_query(query) ==
    IF query = <<>> THEN <<>>
    ELSE IF Head(query) \in {" ", "\t"}
    THEN <<Head(query)>> \o suggested_query(Tail(query))
    ELSE Corrected(FirstWord(query))
            \o suggested_query(SubSeq(query, Len(FirstWord(query)) + 1, Len(query)))

\* _suggest_query_correction (lines 450-477): the suggestion displayed, <<>>
\* when no word has a correction
_suggest_query_correction(query) ==
    IF suggested_query(query) = query THEN <<>> ELSE suggested_query(query)

\* lines 441-444: the suggestion is looked for when the search found nothing
Suggestion(c) ==
    IF c.results # <<>> THEN <<>> ELSE _suggest_query_correction(c.query)

\* lines 430-448 of _handle_search: the results are displayed, with a
\* suggestion when there are none; an exception is reported
ShowSearch ==
    /\ call.pc = "done"
    /\ call' = IF call.raised THEN [call EXCEPT !.pc = "shown"]
               ELSE [call EXCEPT !.pc = "shown",
                                 !.displayed = Len(call.results),
                                 !.suggestion = Suggestion(call)]
    /\ UNCHANGED <<frontend, listing, editing, _object_cache, relating, choosing>>

\* _handle_search returns
ReturnSearch ==
    /\ call.pc = "shown"
    /\ call' = IdleCall
    /\ UNCHANGED <<frontend, listing, editing, _object_cache, relating, choosing>>

ClientNext ==
    \/ BeginSearch
    \/ SoslRequest
    \/ NameLookup
    \/ FallbackRequest
    \/ CountRequest
    \/ ShowSearch
    \/ ReturnSearch

ClientSpec == Init /\ [][ClientNext]_vars

\* ------------------------------------------------------ _sort_records
\* the value a record holds for the sort field: None, no such key, or a
\* string, known by its rank in the order of strings (rank 0 is '')
SortValues ==
    {[kind |-> "null", rank |-> 0], [kind |-> "absent", rank |-> 0]}
       \cup {[kind |-> "str", rank |-> r] : r \in 0..MaxRank}

\* the lists given to sort: a record is known by its place in the input
SortInputs ==
    UNION {[1..n -> SortValues] : n \in 0..MaxSortLen}

SortRows(values) == [i \in DOMAIN values |-> [Id |-> i, value |-> values[i]]]

\* x.get(field_name) is None
IsNone(x) == x.value.kind \in {"null", "absent"}

\* key=lambda x: (x.get(field_name) is None, x.get(field_name) or '')
SortKey(x) ==
    <<IF IsNone(x) THEN 1 ELSE 0, IF IsNone(x) THEN 0 ELSE x.value.rank>>

\* the order of Python tuples
KeyLess(a, b) == a[1] < b[1] \/ (a[1] = b[1] /\ a[2] < b[2])

\* x has to come before y in the output
Before(x, y, descending) ==
    IF descending THEN KeyLess(SortKey(y), SortKey(x))
    ELSE KeyLess(SortKey(x), SortKey(y))

\* x put into a sorted list in front of the records with its own key
Insert_BeforeEquals(x, done, descending) ==
    LET stay == {i \in DOMAIN done : Before(done[i], x, descending)}
        k == IF stay = {} THEN 0 ELSE CHOOSE i \in stay : \A j \in stay : j <= i
    IN  SubSeq(done, 1, k) \o <<x>> \o SubSeq(done, k + 1, Len(done))

\* x put into a sorted list behind every record it does not have to precede
Insert(x, done, descending) ==
    LET stay == {i \in DOMAIN done : ~Before(x, done[i], descending)}
        k == IF stay = {} THEN 0 ELSE CHOOSE i \in stay : \A j \in stay : j <= i
    IN  SubSeq(done, 1, k) \o <<x>> \o SubSeq(done, k + 1, Len(done))

\* sorted(records, key=..., reverse=descending): a stable sort, in which
\* reverse keeps the input order of records with equal keys
RECURSIVE sorted(_, _)
sorted(records, descending) ==
    IF records = <<>> THEN <<>>
    ELSE Insert(records[Len(records)],
                sorted(SubSeq(records, 1, Len(records) - 1), descending),
                descending)

\* ls | sort <field> [-desc] with a list to show
BeginSort ==
    /\ listing.pc = "idle"
    /\ \E values \in SortInputs, descending \in BOOLEAN :
         listing' = [IdleListing EXCEPT !.pc = "sort", !.records = SortRows(values),
                                        !.descending = descending]
    /\ UNCHANGED <<frontend, call, editing, _object_cache, relating, choosing>>

\* _sort_records(records, field_name, descending); the list it returns is
\* displayed (lines 829-839), None is not
_sort_records ==
    /\ listing.pc = "sort"
    /\ listing' =
         IF listing.records = <<>>
         THEN [listing EXCEPT !.pc = "shown", !.displayed = TRUE]
         ELSE IF listing.records[1].value.kind = "absent"
         THEN [listing EXCEPT !.pc = "shown", !.error = TRUE]
         ELSE [listing EXCEPT !.pc = "shown", !.displayed = TRUE,
                              !.result = sorted(listing.records, listing.descending)]
    /\ UNCHANGED <<frontend, call, editing, _object_cache, relating, choosing>>

\* the sorted list has been displayed
EndSort ==
    /\ listing.pc = "shown"
    /\ listing' = IdleListing
    /\ UNCHANGED <<frontend, call, editing, _object_cache, relating, choosing>>

SortNext == BeginSort \/ _sort_records \/ EndSort

SortSpec == Init /\ [][SortNext]_vars

\* select <n>, or the bare number n, typed after the sorted list was shown:
\* lines 826-839 assign nothing, so the list of the session that
\* _handle_select (567-568) and _handle_select_related index is the one that
\* was given to _sort_records; record_id is the record it fetches
SelectListed ==
    /\ listing.pc = "shown"
    /\ listing.displayed
    /\ \E n \in 1..Len(listing.records) :
         listing' = [listing EXCEPT !.pc = "selected", !.index = n,
                                    !.record_id = Item(listing.records, n - 1).Id]
    /\ UNCHANGED <<frontend, call, editing, _object_cache, relating, choosing>>

\* the selected record has been fetched and shown
EndSelect ==
    /\ listing.pc = "selected"
    /\ listing' = IdleListing
    /\ UNCHANGED <<frontend, call, editing, _object_cache, relating, choosing>>

LsNext == SortNext \/ SelectListed \/ EndSelect

LsSpec == Init /\ [][LsNext]_vars

\* ------------------------------------------------------- _handle_update
EditedRecord ==
    [Id |-> [t |-> "Account", n |-> 1], src |-> "get", fields |-> InitialFields]

\* the answers typed at the confirmation prompt
Confirmations == {"yes", "y", " YES ", "no", "", "yeah"}

\* str.strip() on the strings of the model
strip(s) == IF s = " YES " THEN "YES" ELSE IF s = " yes " THEN "yes" ELSE s

\* int(s) for the strings it accepts; the others raise ValueError
PyInt == ("1" :> 1) @@ ("012" :> 12)

\* str(float(s)) for the strings float() accepts
PyFloat == ("1" :> "1.0") @@ ("012" :> "12.0") @@ ("1.5" :> "1.5")

new_value_typed_CaseSensitive(old_value, new_value) ==
    CASE old_value.type = "bool" ->
           Typed("bool", IF new_value \in {"true", "1", "yes", "t", "y"} THEN "True" ELSE "False")
      [] old_value.type = "int" /\ new_value \in DOMAIN PyInt ->
           Typed("int", ToString(PyInt[new_value]))
      [] old_value.type = "float" /\ new_value \in DOMAIN PyFloat ->
           Typed("float", PyFloat[new_value])
      [] OTHER -> Typed("str", new_value)

\* lines 1006-1021: the new value in the type of the old one
new_value_typed(old_value, new_value) ==
    CASE old_value.type = "bool" ->
           Typed("bool", IF lower(new_value) \in {"true", "1", "yes", "t", "y"} THEN "True" ELSE "False")
      [] old_value.type = "int" ->
           IF new_value \in DOMAIN PyInt
           THEN Typed("int", ToString(PyInt[new_value]))
           ELSE Typed("str", new_value)
      [] old_value.type = "float" ->
           IF new_value \in DOMAIN PyFloat
           THEN Typed("float", PyFloat[new_value])
           ELSE Typed("str", new_value)
      [] OTHER -> Typed("str", new_value)

\* lines 994-999: the key of the record that the typed field name names
actual_field(record, field_name) ==
    LET keys == {key \in DOMAIN record.fields : lower(key) = lower(field_name)}
    IN  IF keys = {} THEN None ELSE CHOOSE key \in keys : TRUE

CommitAnswers_Any == {lower(strip(answer)) : answer \in Confirmations}

\* the answers that commit the update (line 1033)
CommitAnswers == {"yes", "y"}

\* the session states in which an update is typed: no record; a record
\* fetched by get; a record with its related list, after search, select and cd
UpdateInit ==
    /\ running = TRUE
    /\ last = Outcome("start", "ok", 0)
    /\ pre = NoSnapshot
    /\ call = IdleCall
    /\ listing = IdleListing
    /\ editing = IdleEditing
    /\ _object_cache = <<>>
    /\ relating = IdleRelating
    /\ choosing = IdleChoosing
    /\ current_records = <<>>
    /\ \/ /\ current_object = None
          /\ current_record = NoRecord
          /\ related_records = <<>>
          /\ related_type = None
          /\ navigation_stack = <<>>
          /\ navigation_path = <<>>
       \/ /\ current_object = "Account"
          /\ current_record = EditedRecord
          /\ related_records = <<>>
          /\ related_type = None
          /\ navigation_stack = <<>>
          /\ navigation_path = <<>>
       \/ /\ current_object = "Account"
          /\ current_record = EditedRecord
          /\ related_records = RowsOf("Contact", 1..MaxId, "related")
          /\ related_type = "Contacts"
          /\ navigation_stack =
               <<Frame("search", "Account", RowsOf("Account", 1..MaxId, "search"),
                       NoRecord, None, <<>>, TRUE),
                 Frame("record", "Account", <<>>, EditedRecord, None, <<>>, TRUE)>>
          /\ navigation_path = <<"Account:N1", "Contacts">>

\* the fields of the session that the update handler never assigns
besideRecord ==
    <<current_object, current_records, related_records, related_type,
      navigation_path, running, last, pre, call, listing, _object_cache,
      relating, choosing>>

\* an update that ends with a message before the confirmation prompt
UpdateRejected(outcome) ==
    /\ editing' = [IdleEditing EXCEPT !.outcome = outcome,
                                      !.writes = editing.writes,
                                      !.updates = editing.updates]
    /\ UNCHANGED <<besideRecord, current_record, navigation_stack>>

\* update <field> <value>, up to the confirmation prompt (lines 262-263 and
\* 976-1030)
UpdateCommand ==
    /\ editing.pc = "idle"
    /\ editing.updates < MaxUpdates
    \* the field name and the value typed; "" is a missing value
    /\ \E field_name \in {"active", "Count", "SCORE", "phone", "Fax", "Nope"},
          new_value \in {"", "YES", "no", "1", "012", "abc", "1.5"} :
         IF current_record = NoRecord
         THEN UpdateRejected("unknown_command")
         ELSE IF new_value = ""
         THEN UpdateRejected("usage")
         ELSE IF actual_field(current_record, field_name) = None
         THEN UpdateRejected("field_not_found")
         ELSE LET key == actual_field(current_record, field_name)
              IN  /\ editing' =
                       [editing EXCEPT
                          !.pc = "confirm", !.field = key, !.outcome = None,
                          !.confirmation = None,
                          !.new_value = new_value,
                          !.old_value = current_record.fields[key],
                          !.typed = new_value_typed(current_record.fields[key],
                                                    new_value)]
                  /\ UNCHANGED <<besideRecord, current_record, navigation_stack>>

\* the answer to "Proceed with update? (yes/no)" (lines 1029-1035)
Confirm ==
    /\ editing.pc = "confirm"
    /\ \E answer \in Confirmations :
         LET confirmation == lower(strip(answer))
         IN  editing' = IF confirmation \in CommitAnswers
                        THEN [editing EXCEPT !.pc = "write",
                                             !.confirmation = confirmation]
                        ELSE [editing EXCEPT !.pc = "idle",
                                             !.confirmation = confirmation,
                                             !.outcome = "cancelled"]
    /\ UNCHANGED <<besideRecord, current_record, navigation_stack>>

Updated_EveryField(record) ==
    [record EXCEPT !.fields = [key \in DOMAIN @ |-> editing.typed]]

\* the record with the field replaced (line 1046)
Updated(record) == [record EXCEPT !.fields[editing.field] = editing.typed]

\* lines 1038-1055: client.update_record reports success (200, 204), reports
\* another status, or raises
Write ==
    /\ editing.pc = "write"
    /\ \E result \in {"success", "refused", "raised"} :
         /\ editing' = [editing EXCEPT !.pc = "idle", !.outcome = result,
                                       !.writes = @ + 1, !.updates = @ + 1]
         /\ IF result = "success"
            THEN /\ current_record' = Updated(current_record)
                 \* a frame that holds the dict of the current record sees the
                 \* assignment too
                 /\ navigation_stack' =
                      [i \in DOMAIN navigation_stack |->
                         IF navigation_stack[i].record = current_record
                         THEN [navigation_stack[i] EXCEPT
                                 !.record = Updated(current_record)]
                         ELSE navigation_stack[i]]
            ELSE UNCHANGED <<current_record, navigation_stack>>
    /\ UNCHANGED besideRecord

UpdateNext == UpdateCommand \/ Confirm \/ Write

UpdateSpec == UpdateInit /\ [][UpdateNext]_vars

\* -------------------------------------------------- get_related_records
\* the static table of plural names (lines 257-272) has the entries of
\* object_mapping for these names

\* lines 626-633: the joining field by convention, for the parent types that
\* have one
common_patterns == [Account |-> "AccountId"]

\* f"{parent_object}Id" (line 663)
standard_field(parent_object) ==
    IF parent_object = "Account" THEN "AccountId" ELSE "OrderId"

\* the field lists that the store describes on a child type
FieldLists ==
    LET AccountId == [name |-> "AccountId", type |-> "reference",
                      referenceTo |-> {"Account"}]
        OrderId == [name |-> "OrderId", type |-> "string", referenceTo |-> {}]
        Ref == [name |-> "Ref__c", type |-> "reference",
                referenceTo |-> {"Account", "Order"}]
        OwnerId == [name |-> "OwnerId", type |-> "reference",
                    referenceTo |-> {"User"}]
    IN  {<<OwnerId>>, <<OwnerId, AccountId>>, <<OrderId, OwnerId>>, <<Ref, AccountId>>}

\* what obj.describe() can return for a type; the child relationship on Note
\* has no relationship name
StoreMetadata(object_type) ==
    LET Unqueryable == [relationshipName |-> None, childSObject |-> "Note",
                        field |-> "ParentId"]
        Contacts == [relationshipName |-> "Contacts", childSObject |-> "Person__c",
                     field |-> "Owner__c"]
        Widgets == [relationshipName |-> "Widgets__r", childSObject |-> "Widget__c",
                    field |-> "Order__c"]
    IN  CASE object_type = "Account" ->
               {[childRelationships |-> <<>>, fields |-> <<>>],
                [childRelationships |-> <<Unqueryable, Contacts>>, fields |-> <<>>]}
          [] object_type = "Order" ->
               {[childRelationships |-> <<Unqueryable>>, fields |-> <<>>],
                [childRelationships |-> <<Widgets>>, fields |-> <<>>]}
          [] OTHER ->
               {[childRelationships |-> <<>>, fields |-> fields] : fields \in FieldLists}

Described_NoMemo(object_type) ==
    {[ok |-> FALSE, metadata |-> [childRelationships |-> <<>>, fields |-> <<>>],
      fetched |-> TRUE]}
       \cup {[ok |-> TRUE, metadata |-> metadata, fetched |-> TRUE] :
               metadata \in StoreMetadata(object_type)}

\* describe_object (lines 307-321): the memoized value without a request, or
\* else what the store answers, a failure included
Described(object_type) ==
    IF object_type \in DOMAIN _object_cache
    THEN {[ok |-> TRUE, metadata |-> _object_cache[object_type], fetched |-> FALSE]}
    ELSE Described_NoMemo(object_type)

\* line 319: the memo after the answer
Remembered(object_type, answer) ==
    IF answer.ok /\ answer.fetched
    THEN (object_type :> answer.metadata) @@ _object_cache
    ELSE _object_cache

\* the requests of the call after describe_object
Fetched(object_type, answer) ==
    IF answer.fetched
    THEN Append(relating.sent, [kind |-> "describe", object |-> object_type,
                                field |-> None])
    ELSE relating.sent

Fetches(answer) ==
    IF answer.ok /\ answer.fetched THEN relating.fetches + 1 ELSE relating.fetches

\* get_child_relationships (lines 333-345): the declarations with a name
relationships(metadata) ==
    SelectSeq(metadata.childRelationships,
              LAMBDA child_rel : child_rel.relationshipName # None)

\* lines 245-254: the positions of the declarations with the requested name
Matches(metadata, relationship_name) ==
    {i \in DOMAIN relationships(metadata) :
        relationships(metadata)[i].relationshipName = relationship_name}

FirstOf(positions) == CHOOSE i \in positions : \A j \in positions : i <= j

Resolution_TableFirst(metadata, relationship_name) ==
    IF Matches(metadata, relationship_name) # {}
          /\ object_mapping(relationship_name) = relationship_name
    THEN LET rel == relationships(metadata)[FirstOf(Matches(metadata, relationship_name))]
         IN  [actual_object |-> rel.childSObject, relationship_field |-> rel.field,
              declared |-> TRUE]
    ELSE [actual_object |-> object_mapping(relationship_name),
          relationship_field |-> None, declared |-> FALSE]

\* lines 245-273: the declared relationship of that name, or else the child
\* type of the static table with the joining field still to find
Resolution(metadata, relationship_name) ==
    IF Matches(metadata, relationship_name) # {}
    THEN LET rel == relationships(metadata)[FirstOf(Matches(metadata, relationship_name))]
         IN  [actual_object |-> rel.childSObject, relationship_field |-> rel.field,
              declared |-> TRUE]
    ELSE [actual_object |-> object_mapping(relationship_name),
          relationship_field |-> None, declared |-> FALSE]

\* field_names (lines 639, 664)
field_names(metadata) == {metadata.fields[i].name : i \in DOMAIN metadata.fields}

reference_field_Guess(parent_object, metadata) ==
    LET refs == {i \in DOMAIN metadata.fields :
                    /\ metadata.fields[i].type = "reference"
                    /\ parent_object \in metadata.fields[i].referenceTo}
    IN  IF refs # {} THEN metadata.fields[FirstOf(refs)].name
        ELSE standard_field(parent_object)

\* lines 648-666: the first reference field that targets the parent, or else
\* the field named after the parent, or else None
reference_field(parent_object, metadata) ==
    LET refs == {i \in DOMAIN metadata.fields :
                    /\ metadata.fields[i].type = "reference"
                    /\ parent_object \in metadata.fields[i].referenceTo}
    IN  IF refs # {} THEN metadata.fields[FirstOf(refs)].name
        ELSE IF standard_field(parent_object) \in field_names(metadata)
        THEN standard_field(parent_object)
        ELSE None

\* what a call of get_related_records leaves alone
besideRelating == <<frontend, call, listing, editing, choosing>>

\* the call ends with an exception
Raise(sent, answer) ==
    [relating EXCEPT !.pc = "done", !.raised = TRUE, !.sent = sent,
                     !.fetches = Fetches(answer)]

BeginRelated ==
    /\ relating.pc = "idle"
    /\ relating.calls < MaxCalls
    /\ \E object_type \in {"Account", "Order"},
          relationship_name \in {"Contacts", "Widgets__r"} :
         relating' = [IdleRelating EXCEPT
                        !.pc = "parent", !.object_type = object_type,
                        !.relationship_name = relationship_name,
                        !.calls = relating.calls + 1,
                        !.fetches = relating.fetches]
    /\ UNCHANGED <<besideRelating, _object_cache>>

\* lines 245-273: the parent's child relationships, then the declared match or
\* the static table
ParentDescribed ==
    /\ relating.pc = "parent"
    /\ \E answer \in Described(relating.object_type) :
         LET sent == Fetched(relating.object_type, answer)
             found == Resolution(answer.metadata, relating.relationship_name)
         IN  /\ _object_cache' = Remembered(relating.object_type, answer)
             /\ relating' =
                  IF ~answer.ok THEN Raise(sent, answer)
                  ELSE [relating EXCEPT
                          !.sent = sent, !.fetches = Fetches(answer),
                          !.actual_object = found.actual_object,
                          !.relationship_field = found.relationship_field,
                          !.declared = found.declared,
                          !.pc = IF found.declared THEN "fields"
                                 ELSE IF relating.object_type \in DOMAIN common_patterns
                                 THEN "common" ELSE "reference"]
    /\ UNCHANGED besideRelating

\* lines 635-645: the field of the convention table, when the child has it
CommonPattern ==
    /\ relating.pc = "common"
    /\ \E answer \in Described(relating.actual_object) :
         LET sent == Fetched(relating.actual_object, answer)
             pattern == common_patterns[relating.object_type]
         IN  /\ _object_cache' = Remembered(relating.actual_object, answer)
             /\ relating' =
                  IF answer.ok /\ pattern \in field_names(answer.metadata)
                  THEN [relating EXCEPT !.sent = sent, !.fetches = Fetches(answer),
                                        !.relationship_field = pattern,
                                        !.pc = "fields"]
                  ELSE [relating EXCEPT !.sent = sent, !.fetches = Fetches(answer),
                                        !.pc = "reference"]
    /\ UNCHANGED besideRelating

\* lines 647-673 and 275-276: the reference field or the field named after
\* the parent; without one the call raises ValueError
ReferenceField ==
    /\ relating.pc = "reference"
    /\ \E answer \in Described(relating.actual_object) :
         LET sent == Fetched(relating.actual_object, answer)
             field == IF answer.ok
                      THEN reference_field(relating.object_type, answer.metadata)
                      ELSE None
         IN  /\ _object_cache' = Remembered(relating.actual_object, answer)
             /\ relating' =
                  IF field = None THEN Raise(sent, answer)
                  ELSE [relating EXCEPT !.sent = sent, !.fetches = Fetches(answer),
                                        !.relationship_field = field,
                                        !.pc = "fields"]
    /\ UNCHANGED besideRelating

\* line 279: _get_query_fields describes the child type
QueryFields ==
    /\ relating.pc = "fields"
    /\ \E answer \in Described(relating.actual_object) :
         LET sent == Fetched(relating.actual_object, answer)
         IN  /\ _object_cache' = Remembered(relating.actual_object, answer)
             /\ relating' =
                  IF ~answer.ok THEN Raise(sent, answer)
                  ELSE [relating EXCEPT !.sent = sent, !.fetches = Fetches(answer),
                                        !.pc = "query"]
    /\ UNCHANGED besideRelating

\* lines 282-290: the query for the related records
RelatedQuery ==
    /\ relating.pc = "query"
    /\ \E ok \in BOOLEAN :
         relating' = [relating EXCEPT
                        !.pc = "done", !.raised = ~ok,
                        !.sent = Append(@, [kind |-> "query",
                                            object |-> relating.actual_object,
                                            field |-> relating.relationship_field])]
    /\ UNCHANGED <<besideRelating, _object_cache>>

ReturnRelated ==
    /\ relating.pc = "done"
    /\ relating' = [relating EXCEPT !.pc = "idle"]
    /\ UNCHANGED <<besideRelating, _object_cache>>

RelatedNext ==
    \/ BeginRelated
    \/ ParentDescribed
    \/ CommonPattern
    \/ ReferenceField
    \/ QueryFields
    \/ RelatedQuery
    \/ ReturnRelated

RelatedSpec == Init /\ [][RelatedNext]_vars

\* ------------------------------------- _get_name_field, _get_query_fields
\* the elements of a list
Elements(list) == {list[i] : i \in DOMAIN list}

\* the lists of at most MaxFields fields with distinct names that a describe
\* can give, over field types that the choosers treat differently
Metadata ==
    LET catalogue ==
          {Field("Id", "id"), Field("Name", "string"), Field("Name", "textarea"),
           Field("Subject", "string"), Field("Status", "picklist"),
           Field("Email", "email"), Field("Code__c", "string"),
           Field("Flag__c", "boolean"), Field("Notes__c", "textarea")}
        lists == UNION {[1..n -> catalogue] : n \in 0..MaxFields}
    IN  {fields \in lists :
           \A i, j \in DOMAIN fields : fields[i].name = fields[j].name => i = j}

\* line 589
preferred_fields ==
    <<"Name", "Subject", "Title", "Status", "Type", "Priority", "Description",
      "ActivityDate", "DueDate", "Email", "Phone", "Company", "Amount",
      "StageName", "CloseDate", "CreatedDate">>

\* lines 596-598: the preferred fields from position i on that the metadata
\* has are appended in their order of preference while the list is short
RECURSIVE Preferred(_, _, _, _)
Preferred(picked, names, i, max_fields) ==
    IF i > Len(preferred_fields) THEN picked
    ELSE Preferred(IF preferred_fields[i] \in names /\ Len(picked) < max_fields
                   THEN Append(picked, preferred_fields[i])
                   ELSE picked,
                   names, i + 1, max_fields)

\* a fill that does not look at what the list already holds
RECURSIVE Fill_Again(_, _, _, _)
Fill_Again(picked, fields, i, max_fields) ==
    IF i > Len(fields) \/ Len(picked) >= max_fields THEN picked
    ELSE Fill_Again(IF fields[i].type \in {"string", "picklist", "boolean"}
                    THEN Append(picked, fields[i].name)
                    ELSE picked,
                    fields, i + 1, max_fields)

\* lines 601-609: a list that is still short is filled with the string,
\* picklist and boolean fields it does not hold, in the order of the metadata
RECURSIVE Fill(_, _, _, _)
Fill(picked, fields, i, max_fields) ==
    IF i > Len(fields) \/ Len(picked) >= max_fields THEN picked
    ELSE Fill(IF /\ fields[i].name \notin Elements(picked)
                 /\ fields[i].type \in {"string", "picklist", "boolean"}
              THEN Append(picked, fields[i].name)
              ELSE picked,
              fields, i + 1, max_fields)

\* lines 583-611, on the fields of the metadata
_get_query_fields(fields, max_fields) ==
    LET names == {fields[i].name : i \in DOMAIN fields}
    IN  Fill(Preferred(<<"Id">>, names, 1, max_fields), fields, 1, max_fields)

besideChoosing == <<frontend, call, listing, editing, _object_cache, relating>>

\* line 585 and line 569: describe_object gives the metadata of a type
DescribeFields ==
    /\ choosing.pc = "idle"
    /\ \E fields \in Metadata, max_fields \in 1..MaxFields :
         choosing' = [IdleChoosing EXCEPT !.pc = "described", !.fields = fields,
                                          !.max_fields = max_fields]
    /\ UNCHANGED besideChoosing

GetNameField ==
    /\ choosing.pc = "described"
    /\ choosing' = [choosing EXCEPT !.pc = "named",
                                    !.name_field = NameFieldOf(choosing.fields)]
    /\ UNCHANGED besideChoosing

GetQueryFields ==
    /\ choosing.pc = "named"
    /\ choosing' = [choosing EXCEPT
                      !.pc = "chosen",
                      !.query_fields =
                          _get_query_fields(choosing.fields, choosing.max_fields)]
    /\ UNCHANGED besideChoosing

ReturnFields ==
    /\ choosing.pc = "chosen"
    /\ choosing' = IdleChoosing
    /\ UNCHANGED besideChoosing

FieldsNext ==
    \/ DescribeFields
    \/ GetNameField
    \/ GetQueryFields
    \/ ReturnFields

FieldsSpec == Init /\ [][FieldsNext]_vars

\* ------------------------------------------------------------- properties
\* a command of the given handlers has just ended in one of the given ways
Ended(cmds, outcomes) == last.cmd \in cmds /\ last.outcome \in outcomes

\* the session fields and the navigation stack are left as they were
Untouched == UNCHANGED <<session, navigation_stack>>

\* C1: back issued right after a successful forward transition restores the
\* object type, result list, current record, related list with its
\* relationship name and breadcrumb that held before that transition.
C1_BackRoundTrip ==
    [][(Ended(Forward, {"ok"}) /\ last'.cmd = "back") => Snapshot' = pre]_vars

\* C2: when the fetch of select(n) on search results fails, no frame is pushed
\* and the result list, record, object type and breadcrumb are as before.
C2_SelectFetchFailureAborts ==
    [][(last'.cmd = "select" /\ last'.outcome \in {"failed", "crashed"}) => Untouched]_vars

\* the list that select acts on
ActiveList == IF related_records # <<>> THEN related_records ELSE current_records

\* n is no 1-based index into the list (0, negative, too large, not a number)
OutOfRange(args, records) == args \notin {ToString(i) : i \in 1..Len(records)}

\* C3: select(n) with n outside [1, len(list)] on a non-empty active list
\* reports an error, issues no remote request and changes neither the session
\* fields nor the navigation stack.
C3_InvalidSelectRejected ==
    [][(last'.cmd \in {"select", "select_related"} /\ ActiveList # <<>>) =>
          \A args \in SelectArgs :
             (OutOfRange(args, ActiveList) /\ Select(args))
                => (last'.outcome = "rejected" /\ last'.requests = 0 /\ Untouched)]_vars

C3_Witness ==
    /\ Ended({"select", "select_related"}, {"rejected"})
    /\ ActiveList # <<>>
    /\ navigation_stack # <<>>

\* C4: a search that fails at the remote store leaves the object type, result
\* list, record, related list, stack and breadcrumb as before the command.
C4_SearchFailureKeepsState ==
    [][(last'.cmd = "search" /\ last'.outcome = "failed") => Untouched]_vars

\* C5: a get that fails at the remote store leaves the session as before; the
\* object type is not changed while the previous record is kept.
C5_GetFailureKeepsState ==
    [][(last'.cmd = "get" /\ last'.outcome = "failed") => Untouched]_vars

\* the commands that enter related records or jump along the hierarchy
Relational == {"cd", "related", "select_related", "parent", "ultimateparent", "children"}

\* C6: when cd, related, select on a related list, parent, ultimateparent or
\* children fails (resolution, metadata or record fetch fails, or the lookup
\* finds nothing), no frame is pushed or popped and the session fields stay.
C6_RelationalFailureAborts ==
    [][(last'.cmd \in Relational /\ last'.outcome \in {"failed", "notfound", "info"})
          => Untouched]_vars

C6_Witness ==
    /\ Ended(Relational, {"failed", "notfound"})
    /\ navigation_stack # <<>>
    /\ related_records # <<>>

\* the state Empty
IsEmpty ==
    /\ current_object = None
    /\ current_records = <<>>
    /\ current_record = NoRecord
    /\ related_records = <<>>
    /\ related_type = None
    /\ navigation_path = <<>>

\* C7: back with an empty navigation stack clears everything to Empty, also
\* from the state reached by a search that returned zero rows.
C7_BackAtRootClears ==
    [][(navigation_stack = <<>> /\ last'.cmd = "back") => IsEmpty']_vars

\* C8: a non-empty search result list and a set current record never coexist.
C8_ListAndRecordExclusive ==
    ~(current_records # <<>> /\ current_record # NoRecord)

\* a frame that is a state the session was in
ValidFrame(frame) ==
    /\ frame.object # None
    /\ frame.type = "search" => frame.records # <<>>
    /\ frame.type = "record" =>
          frame.record # NoRecord /\ frame.record.Id.t = frame.object
    /\ frame.type = "related" =>
          frame.record # NoRecord /\ frame.related_type # None

\* C9: every frame on the navigation stack is a valid prior session state: a
\* defined object type; a search frame with a non-empty list; a record frame
\* with a record of that type; a related frame with parent record,
\* relationship name and list.
C9_FramesValid ==
    \A i \in DOMAIN navigation_stack : ValidFrame(navigation_stack[i])

\* C10: after a successful search the stack and breadcrumb are empty, there is
\* no record, related list or relationship name, the object type is the
\* searched type and the result list is the returned rows.
C10_SearchResets ==
    [][(last'.cmd = "search" /\ last'.outcome = "ok") =>
          \A object_type \in Objects :
            \A answer \in search_with_stats(object_type) :
              (answer.ok /\ _handle_search(object_type, answer))
                 => /\ navigation_stack' = <<>>
                    /\ navigation_path' = <<>>
                    /\ current_record' = NoRecord
                    /\ related_records' = <<>>
                    /\ related_type' = None
                    /\ current_object' = object_type
                    /\ current_records' = answer.rows]_vars

C10_Witness ==
    /\ Ended({"search"}, {"ok"})
    /\ current_records # <<>>
    /\ navigation_stack = <<>>

\* C11: a successful select(n) on search results pushes exactly one search
\* frame holding the prior object type, result list and breadcrumb; afterwards
\* the current record is the full record fetched by the identifier of the
\* n-th row, and the result list and breadcrumb are empty.
C11_SelectOnResults ==
    [][(last'.cmd = "select" /\ last'.outcome = "ok") =>
          \A args \in SelectArgs :
             Select(args) =>
                /\ int(args) \in 1..Len(current_records)
                /\ navigation_stack' =
                      Append(navigation_stack,
                             Frame("search", current_object, current_records, NoRecord,
                                   None, navigation_path, TRUE))
                /\ current_record' = Rec(current_records[int(args)].Id, "get")
                /\ current_records' = <<>>
                /\ navigation_path' = <<>>]_vars

C11_Witness ==
    /\ Ended({"select"}, {"ok"})
    /\ navigation_stack # <<>>
    /\ navigation_stack[Len(navigation_stack)].type = "search"
    /\ Len(navigation_stack[Len(navigation_stack)].records) > 1
    /\ current_record.Id.n = 2

\* C12: a successful cd <relationship> pushes exactly one record frame (prior
\* object type, record and breadcrumb), sets the related list and relationship
\* name, keeps the current record and appends the relationship name to the
\* breadcrumb, seeding an empty breadcrumb with "type:displayName" first.
C12_CdEnters ==
    [][(last'.cmd = "cd" /\ last'.outcome = "ok") =>
          /\ current_record # NoRecord
          /\ navigation_stack' =
                Append(navigation_stack,
                       Frame("record", current_object, <<>>, current_record, None,
                             navigation_path, TRUE))
          /\ current_record' = current_record
          /\ current_object' = current_object
          /\ \A args \in RelationshipArgs :
                _handle_cd(args) => related_type' \in {args, RSpelling(args)}
          /\ \E answer \in get_related_records(current_object, related_type') :
                answer.ok /\ related_records' = answer.rows
          /\ navigation_path' =
                (IF navigation_path = <<>>
                 THEN <<current_object \o ":" \o RecordName(current_record)>>
                 ELSE navigation_path) \o <<related_type'>>]_vars

C12_Witness ==
    /\ Ended({"cd"}, {"ok"})
    /\ Len(navigation_path) = 3
    /\ Len(navigation_stack) = 2
    /\ navigation_stack[2].navigation_path = SubSeq(navigation_path, 1, 2)
    /\ related_type = "Partners__r"

\* the child object type that get_related_records resolved for the list: the
\* type of the rows it returned
ResolvedChildType(rows) == rows[1].Id.t

\* C13: select(n) on a related list fetches the record under the child object
\* type resolved when the list was fetched; when it succeeds the current
\* object type is that child type, exactly one related frame (parent type,
\* parent record, relationship name, list, breadcrumb) is pushed and the
\* breadcrumb is empty.
C13_SelectRelatedType ==
    [][(last'.cmd = "select_related" /\ last'.requests = 1) =>
          /\ object_mapping(related_type) = ResolvedChildType(related_records)
          /\ last'.outcome = "ok" =>
                /\ current_object' = ResolvedChildType(related_records)
                /\ current_record'.Id.t = current_object'
                /\ navigation_stack' =
                      Append(navigation_stack,
                             Frame("related", current_object, related_records,
                                   current_record, related_type, navigation_path, TRUE))
                /\ navigation_path' = <<>>]_vars

\* C14: in every session state a bare number n has exactly the effect of
\* select n: it acts on the related list when that is non-empty, otherwise on
\* the search results when those are non-empty, and with neither list it is
\* rejected with no state change and no remote request.
C14_BareNumberIsSelect ==
    [][(last'.cmd \in {"select", "select_related"}) =>
          \A args \in Digits :
             /\ Bare(args) <=> Select(args)
             /\ Bare(args) =>
                   /\ related_records # <<>> => last'.cmd = "select_related"
                   /\ (related_records = <<>> /\ current_records # <<>>)
                         => last'.cmd = "select"
                   /\ (related_records = <<>> /\ current_records = <<>>)
                         => (last'.outcome = "rejected" /\ last'.requests = 0
                               /\ Untouched)]_vars

\* a number selected from the related list while search results were held too
C14_Witness ==
    /\ Ended({"select_related"}, {"ok"})
    /\ current_records # <<>>
    /\ navigation_stack[Len(navigation_stack)].type = "related"

\* the frame on top of the stack after a push
Top(stack) == stack[Len(stack)]

\* exactly one record frame holding the prior object type and record was pushed
PushedRecordFrame ==
    /\ Len(navigation_stack') = Len(navigation_stack) + 1
    /\ SubSeq(navigation_stack', 1, Len(navigation_stack)) = navigation_stack
    /\ Top(navigation_stack').type = "record"
    /\ Top(navigation_stack').object = current_object
    /\ Top(navigation_stack').record = current_record

\* the link field that parent / ultimateparent read from the current record
LinkOf(cmd) ==
    IF cmd = "parent" THEN GetParentId(current_record)
    ELSE GetUltimateParent(current_record)

\* C15: parent and ultimateparent, on a record of the hierarchical type with
\* the link set, push exactly one record frame holding the prior record and
\* make the fetched parent the current record, clearing the related list;
\* children pushes one record frame, keeps the current record and fills the
\* related list with the child rows; for another object type or a missing
\* link nothing is pushed and the state is unchanged.
C15_HierarchyShortcuts ==
    [][(last'.cmd \in {"parent", "ultimateparent", "children"}) =>
          /\ (last'.cmd # "children" /\ last'.outcome = "ok") =>
                /\ current_object = "Account"
                /\ LinkOf(last'.cmd) # NoId
                /\ PushedRecordFrame
                /\ current_record'.Id = LinkOf(last'.cmd)
                /\ related_records' = <<>>
                /\ related_type' = None
                /\ current_object' = current_object
          /\ (last'.cmd = "children" /\ last'.outcome = "ok") =>
                /\ current_object = "Account"
                /\ PushedRecordFrame
                /\ current_record' = current_record
                /\ current_object' = current_object
                /\ related_records' =
                      RowsOf("Account", ChildrenOf(current_record.Id), "children")
                /\ related_records' # <<>>
          /\ (current_object # "Account"
                 \/ (last'.cmd # "children" /\ LinkOf(last'.cmd) = NoId)) =>
                /\ last'.outcome \in {"rejected", "info"}
                /\ last'.requests = 0
                /\ Untouched]_vars

C15_Witness ==
    /\ Ended({"parent", "ultimateparent"}, {"ok"})
    /\ current_record.Id = [t |-> "Account", n |-> 1]
    /\ Top(navigation_stack).record.Id = [t |-> "Account", n |-> 2]
    /\ Top(navigation_stack).type = "record"

\* the requests of one kind that the call in progress has sent
Entries(kind) == {i \in DOMAIN call.log : call.log[i].request.kind = kind}

\* search() has returned or raised
SearchOver == call.pc \in {"count_name", "count_soql", "done"}

\* the full-text request returned no row or failed
FullTextEmptyOrFailed ==
    call.log # <<>> /\ (call.log[1].answer # "ok" \/ call.log[1].n = 0)

\* C16: the full-text request is sent first; the fallback query is sent if and
\* only if the full-text request returned zero rows or failed (and the name
\* field could be looked up); rows of the full-text request are the result;
\* and when only the full-text request failed, the failure does not reach the
\* caller.
C16_FullTextThenFallback ==
    /\ call.log # <<>> => call.log[1].request.kind = "sosl"
    /\ Entries("sosl") \subseteq {1}
    /\ Entries("soql") # {} => FullTextEmptyOrFailed
    /\ (SearchOver /\ FullTextEmptyOrFailed
          /\ \A i \in Entries("describe") : call.log[i].answer = "ok")
         => Entries("soql") # {}
    /\ (call.log # <<>> /\ call.log[1].answer = "ok" /\ call.log[1].n > 0)
         => /\ ~call.raised
            /\ call.results = RowsOf(call.object_type, 1..call.log[1].n, "sosl")
    /\ (call.pc = "done" /\ call.log[1].answer # "ok"
          /\ \A i \in 2..Len(call.log) : call.log[i].answer # "failed")
         => ~call.raised

\* C17: every fallback query selects the explicit fields, else the column set
\* of Account, else Id and the name field; it filters by substring on the
\* name field, is ordered by the name field and carries the limit of the call.
C17_FallbackShape ==
    \A i \in Entries("soql") :
       LET request == call.log[i].request
           name_field == _get_name_field(call.object_type)
       IN  /\ request.select =
                 (IF call.fields # NoFields THEN call.fields
                  ELSE IF call.object_type = "Account"
                  THEN <<"Id", name_field, "ParentId", "Ultimate_Parent__c",
                         "ShippingStreet", "ShippingCity", "ShippingState",
                         "ShippingPostalCode">>
                  ELSE <<"Id", name_field>>)
           /\ request.where = [field |-> name_field, like |-> call.query]
           /\ request.order = name_field
           /\ request.limit = call.limit

\* the count request was sent in this step and the store answered it
Counted ==
    /\ Len(call'.log) = Len(call.log) + 1
    /\ call'.log[Len(call'.log)].request.kind = "count"
    /\ call'.log[Len(call'.log)].answer = "ok"

\* C18: the count query has the filter of the fallback query and no limit;
\* when the count request or the name-field lookup before it fails, the search
\* still returns the same rows and the total is the number of returned rows.
C18_CountDegrades ==
    [][(call.pc \in {"count_name", "count_soql"}) =>
          /\ call'.results = call.results
          /\ ~call'.raised
          /\ (call'.pc = "done" /\ ~Counted) => call'.total = Len(call.results)
          /\ \A i \in DOMAIN call'.log :
                call'.log[i].request.kind = "count" =>
                   /\ call'.log[i].request.where =
                         [field |-> _get_name_field(call.object_type),
                          like |-> call.query]
                   /\ call'.log[i].request.limit = NoLimit
                   /\ \A j \in Entries("soql") :
                         call.log[j].request.where = call'.log[i].request.where]_vars

C18_Witness ==
    /\ call.pc = "done"
    /\ ~call.raised
    /\ call.results # <<>>
    /\ Entries("soql") # {}
    /\ call.log[Len(call.log)].request.kind = "count"
    /\ call.log[Len(call.log)].answer = "failed"
    /\ call.total = Len(call.results)

\* the raw query is wrapped in double quotes
IsWrapped(query) ==
    Len(query) >= 2 /\ query[1] = Quote /\ query[Len(query)] = Quote

Whitespace == {" ", "\t"}

\* C19: the full-text search term is the raw query verbatim when that is
\* already wrapped in double quotes, else the query wrapped in double quotes
\* when it contains any whitespace, else the bare query.
C19_Quoting ==
    \A i \in Entries("sosl") :
       call.log[i].request.term =
          (IF IsWrapped(call.query) THEN call.query
           ELSE IF \E k \in DOMAIN call.query : call.query[k] \in Whitespace
           THEN <<Quote>> \o call.query \o <<Quote>>
           ELSE call.query)

\* C20: in the list that sort returns, every record whose value for the field
\* is null or missing comes before every record with a non-null value, in
\* ascending and in descending direction.
C20_NullsFirst ==
    listing.pc = "shown" =>
       \A i, j \in DOMAIN listing.result :
          (IsNone(listing.result[i]) /\ ~IsNone(listing.result[j])) => i < j

\* two records hold the same value for the sort field
SameValue(x, y) == (IsNone(x) /\ IsNone(y)) \/ x.value = y.value

\* C21: a list returned by sort is a permutation of the input in which
\* records with equal sort-field values keep their input order, in both
\* directions; when the field is absent from the first record, sort reports
\* an error and no list is displayed.
C21_StableLossless ==
    listing.pc = "shown" =>
       IF listing.records # <<>> /\ listing.records[1].value.kind = "absent"
       THEN listing.error /\ ~listing.displayed /\ listing.result = <<>>
       ELSE /\ ~listing.error
            /\ listing.displayed
            /\ Len(listing.result) = Len(listing.records)
            /\ \A i \in DOMAIN listing.records :
                  \E j \in DOMAIN listing.result :
                     /\ listing.result[j] = listing.records[i]
                     /\ \A k \in DOMAIN listing.result :
                           listing.result[k].Id = i => k = j
            /\ \A a, b \in DOMAIN listing.result :
                  (a < b /\ SameValue(listing.result[a], listing.result[b]))
                     => listing.result[a].Id < listing.result[b].Id

\* a descending sort that moved records and kept two equal ones in order
C21_Witness ==
    /\ listing.pc = "shown"
    /\ listing.descending
    /\ listing.result # listing.records
    /\ Len(listing.result) = 3
    /\ \E a, b \in DOMAIN listing.result :
          /\ a < b
          /\ ~IsNone(listing.result[a])
          /\ listing.result[a].value = listing.result[b].value

\* C22: the value offered for confirmation follows the type of the field's
\* current value: a boolean field gets true exactly when the lower-cased input
\* is one of true, 1, yes, t, y, and false otherwise; an integer or float
\* field gets the input parsed to that type, or the raw string when it does
\* not parse; a field of any other type gets the raw string
C22_Coercion ==
    editing.pc \in {"confirm", "write"} =>
       LET raw == editing.new_value
           was == editing.old_value.type
           now == editing.typed
       IN  /\ was = "bool" =>
                /\ now.type = "bool"
                /\ (now.text = "True" <=>
                      lower(raw) \in {"true", "1", "yes", "t", "y"})
                /\ now.text # "True" => now.text = "False"
           /\ (was = "int" /\ raw \in DOMAIN PyInt) =>
                now = [type |-> "int", text |-> ToString(PyInt[raw])]
           /\ (was = "float" /\ raw \in DOMAIN PyFloat) =>
                now = [type |-> "float", text |-> PyFloat[raw]]
           /\ (was = "int" /\ raw \notin DOMAIN PyInt) =>
                now = [type |-> "str", text |-> raw]
           /\ (was = "float" /\ raw \notin DOMAIN PyFloat) =>
                now = [type |-> "str", text |-> raw]
           /\ was \notin {"bool", "int", "float"} =>
                now = [type |-> "str", text |-> raw]

\* an integer field offered "abc" keeps the string, and a boolean field
\* offered "YES" becomes true
C22_Witness ==
    /\ editing.pc = "confirm"
    /\ \/ /\ editing.old_value.type = "int"
          /\ editing.new_value = "abc"
          /\ editing.typed = [type |-> "str", text |-> "abc"]
       \/ /\ editing.old_value.type = "bool"
          /\ editing.new_value = "YES"
          /\ editing.typed.text = "True"

\* C23 as stated: an update goes on to the remote write only when the
\* confirmation read is "yes"
C23_OnlyExplicitYes ==
    [][(editing.pc = "confirm" /\ editing'.pc = "write")
          => editing'.confirmation = "yes"]_vars

\* C23: an update goes on to the remote write exactly when the trimmed,
\* lower-cased confirmation is yes or y; on any other confirmation, the empty
\* one included, it is cancelled with no write and no change of the session;
\* and no step before the confirmation is read writes or changes anything
C23_ConfirmGate ==
    [][/\ editing.pc = "confirm" =>
            /\ (editing'.pc = "write" <=> editing'.confirmation \in {"yes", "y"})
            /\ editing'.pc # "write" =>
                  /\ editing'.pc = "idle"
                  /\ editing'.outcome = "cancelled"
       /\ editing.pc \in {"idle", "confirm"} =>
            /\ editing'.writes = editing.writes
            /\ UNCHANGED <<frontend, call, listing>>]_vars

\* an empty confirmation has cancelled an update, with nothing written
C23_Witness ==
    /\ editing.pc = "idle"
    /\ editing.outcome = "cancelled"
    /\ editing.confirmation = ""
    /\ editing.writes = 0
    /\ current_record = EditedRecord

\* C24: the remote write of a confirmed update leaves the current record as
\* it was unless the store reported success, and then the resolved field holds
\* the typed value and every other field its old value; the object type, the
\* lists, the depth of the navigation stack and the breadcrumb stay the same
C24_UpdateFrame ==
    [][editing.pc = "write" =>
         /\ editing'.writes = editing.writes + 1
         /\ editing'.outcome = "success" =>
              /\ current_record'.Id = current_record.Id
              /\ DOMAIN current_record'.fields = DOMAIN current_record.fields
              /\ \A key \in DOMAIN current_record.fields :
                    current_record'.fields[key] =
                       IF key = editing.field THEN editing.typed
                       ELSE current_record.fields[key]
         /\ editing'.outcome # "success" => current_record' = current_record
         /\ current_record' # current_record => editing'.outcome = "success"
         /\ UNCHANGED <<current_object, current_records, related_records,
                        related_type, navigation_path>>
         /\ Len(navigation_stack') = Len(navigation_stack)]_vars

\* a successful write has replaced the integer Count by the string abc, below
\* a stack of two frames
C24_Witness ==
    /\ editing.outcome = "success"
    /\ editing.field = "Count"
    /\ current_record.fields["Count"] = [type |-> "str", text |-> "abc"]
    /\ current_record.fields["Phone"] = InitialFields["Phone"]
    /\ Len(navigation_stack) = 2

\* a step of the call in progress has sent a describe request for the type
DescribeSent(object_type) ==
    /\ relating.pc # "idle"
    /\ Len(relating'.sent) = Len(relating.sent) + 1
    /\ relating'.sent[Len(relating'.sent)] =
          [kind |-> "describe", object |-> object_type, field |-> None]

\* C25: over the calls of one client, each memoized type was fetched
\* successfully exactly once; a describe of a memoized type sends no request;
\* no memo entry is ever changed or removed; and a fetch that fails leaves the
\* memo as it was
C25_MemoOnce ==
    /\ [](relating.fetches = Cardinality(DOMAIN _object_cache))
    /\ [][/\ \A object_type \in DOMAIN _object_cache :
               /\ object_type \in DOMAIN _object_cache'
               /\ _object_cache'[object_type] = _object_cache[object_type]
               /\ ~DescribeSent(object_type)
          /\ \A object_type \in DOMAIN _object_cache' \ DOMAIN _object_cache :
               DescribeSent(object_type)
          /\ relating'.fetches = relating.fetches => _object_cache' = _object_cache
         ]_vars

\* the second call on a client has read the memoized metadata of its parent
\* type, declared relationship included, without a request
C25_Witness ==
    /\ relating.calls = 2
    /\ relating.pc = "fields"
    /\ relating.declared
    /\ relating.sent = <<>>
    /\ relating.object_type \in DOMAIN _object_cache

\* the declarations of the requested name in the parent's memoized metadata
DeclaredAt ==
    IF relating.object_type \in DOMAIN _object_cache
    THEN {i \in DOMAIN _object_cache[relating.object_type].childRelationships :
            _object_cache[relating.object_type].childRelationships[i].relationshipName
               = relating.relationship_name}
    ELSE {}

\* C26: when the parent type's metadata declares a child relationship of the
\* requested name, the call resolves to the joining field and child type of
\* that declaration, whatever the static table of plural names, the
\* convention table and the child's fields say, and queries nothing else
C26_DeclaredOutranks ==
    (relating.pc \notin {"idle", "parent"} /\ DeclaredAt # {}) =>
       LET rel == _object_cache[relating.object_type].childRelationships[
                     CHOOSE i \in DeclaredAt : \A j \in DeclaredAt : i <= j]
       IN  /\ relating.declared
           /\ relating.actual_object = rel.childSObject
           /\ relating.relationship_field = rel.field
           /\ relating.pc \in {"fields", "query", "done"}
           /\ \A i \in DOMAIN relating.sent :
                 relating.sent[i].kind = "query" =>
                    /\ relating.sent[i].object = rel.childSObject
                    /\ relating.sent[i].field = rel.field

\* Contacts of an Account, declared on Person__c through Owner__c, has been
\* queried on Person__c by Owner__c, though the static table names Contact
\* and the convention table AccountId
C26_Witness ==
    /\ relating.pc = "done"
    /\ relating.object_type = "Account"
    /\ relating.relationship_name = "Contacts"
    /\ object_mapping("Contacts") = "Contact"
    /\ relating.sent # <<>>
    /\ relating.sent[Len(relating.sent)] =
          [kind |-> "query", object |-> "Person__c", field |-> "Owner__c"]

\* the memoized fields of the child type that the static table names
ChildFields ==
    IF object_mapping(relating.relationship_name) \in DOMAIN _object_cache
    THEN _object_cache[object_mapping(relating.relationship_name)].fields
    ELSE <<>>

\* no declared relationship of the requested name is known, and the child
\* type's metadata could not be read or has neither the convention field, nor
\* a reference field that targets the parent, nor the field named after the
\* parent
NoStepMatches ==
    /\ DeclaredAt = {}
    /\ \A i \in DOMAIN ChildFields :
          /\ relating.object_type = "Account" => ChildFields[i].name # "AccountId"
          /\ ~(ChildFields[i].type = "reference"
                  /\ relating.object_type \in ChildFields[i].referenceTo)
          /\ relating.object_type = "Order" => ChildFields[i].name # "OrderId"

\* C27: when no resolution step matches, the call of get_related_records
\* ends with an error and has sent no query for related records
C27_NoMatchFails ==
    (relating.pc = "done" /\ NoStepMatches) =>
       /\ relating.raised
       /\ \A i \in DOMAIN relating.sent : relating.sent[i].kind # "query"

\* Widgets__r of an Account: the parent's metadata and the child's were read,
\* nothing matched, and the call raised after two describe requests
C27_Witness ==
    /\ relating.pc = "done"
    /\ NoStepMatches
    /\ relating.raised
    /\ relating.object_type \in DOMAIN _object_cache
    /\ object_mapping(relating.relationship_name) \in DOMAIN _object_cache
    /\ Len(relating.sent) = 2

\* the store answered a request of that kind with n rows
AnsweredWith(kind, n) ==
    \E i \in DOMAIN call.log :
       /\ call.log[i].request.kind = kind
       /\ call.log[i].answer = "ok"
       /\ call.log[i].n = n

\* C28: a search whose full-text request returned no row and whose fallback
\* request returned one row displays exactly one record and also a corrected
\* query made from the vocabulary, here for a query in which a word has a
\* close term
C28_FallbackRowSuggests ==
    (/\ call.pc = "shown"
     /\ ~call.raised
     /\ AnsweredWith("sosl", 0)
     /\ AnsweredWith("soql", 1)
     /\ _suggest_query_correction(call.query) # <<>>)
       => /\ call.displayed = 1
          /\ call.suggestion # <<>>
          /\ \E i \in DOMAIN call.suggestion :
                call.suggestion[i] \in {"account", "contact"}

\* C30: every search request sent to the store carries the number given with
\* --limit, or 200 when the flag was not given, and never more than 2000
C30_LimitSent ==
    \A i \in DOMAIN call.log :
       call.log[i].request.kind \in {"sosl", "soql"} =>
          /\ call.log[i].request.limit =
                IF call.limit_flag = <<>> THEN 200
                ELSE IF call.limit_flag[2] = "5000" THEN 5000
                ELSE CHOOSE n \in 1..MaxLimit : ToString(n) = call.limit_flag[2]
          /\ call.log[i].request.limit <= 2000

\* the commands that C29 lists, by the name under which they end
Refusable ==
    {"search", "get", "update", "view", "show", "frob", "cd", "related", "parent",
     "ultimateparent", "children"}

\* C29: a rejected command (a search without object and query or with a
\* --limit that is no number, a get without exactly two arguments, an update
\* without a value or of a field the record does not have, a command that
\* needs a current record when there is none, an unknown command) leaves the
\* session fields and the navigation stack as they were and sends no request
C29_RejectedUntouched ==
    [][(last'.cmd \in Refusable /\ last'.outcome = "rejected") =>
          /\ Untouched
          /\ last'.requests = 0
          /\ UNCHANGED <<call, editing, relating, _object_cache, choosing>>]_vars

\* a malformed search was rejected while a result list was shown, and an
\* update of an unknown field below a stack of frames
C29_Witness ==
    \/ /\ Ended({"search"}, {"rejected"})
       /\ current_records # <<>>
    \/ /\ Ended({"update"}, {"rejected"})
       /\ navigation_stack # <<>>

\* the positions of the child's reference fields that target the parent
ParentReferences ==
    {i \in DOMAIN ChildFields :
        /\ ChildFields[i].type = "reference"
        /\ relating.object_type \in ChildFields[i].referenceTo}

\* C31: for a relationship that the parent's metadata does not declare, the
\* joining field is the convention field of the parent type when the child has
\* it, else the child's first reference field that targets the parent, else
\* the field named after the parent when the child has it; and the field
\* chosen is always one of the child's fields
C31_FixedOrder ==
    (/\ relating.pc \in {"fields", "query", "done"}
     /\ ~relating.declared
     /\ relating.relationship_field # None) =>
       LET names == {ChildFields[i].name : i \in DOMAIN ChildFields}
           named == IF relating.object_type = "Account" THEN "AccountId" ELSE "OrderId"
       IN  /\ relating.relationship_field \in names
           /\ relating.relationship_field =
                 IF relating.object_type = "Account" /\ "AccountId" \in names
                 THEN "AccountId"
                 ELSE IF ParentReferences # {}
                 THEN ChildFields[CHOOSE i \in ParentReferences :
                                     \A j \in ParentReferences : i <= j].name
                 ELSE named


\* the positions of the text fields of the metadata given to the choosers
TextFields(fields) == {i \in DOMAIN fields : fields[i].type = "string"}

\* C32: the name field is a function of the metadata alone: Name when the
\* metadata has a text field called Name; else the first text field, in the
\* order of the metadata, that is not the identifier; else the identifier
C32_NameField ==
    choosing.pc \in {"named", "chosen"} =>
      LET fields == choosing.fields
          others == {i \in TextFields(fields) : fields[i].name # "Id"}
      IN  /\ (\E i \in TextFields(fields) : fields[i].name = "Name")
                => choosing.name_field = "Name"
          /\ ((\A i \in TextFields(fields) : fields[i].name # "Name") /\ others # {})
                => \E i \in others : /\ choosing.name_field = fields[i].name
                                      /\ \A j \in others : i <= j
          /\ ((\A i \in TextFields(fields) : fields[i].name # "Name") /\ others = {})
                => choosing.name_field = "Id"

\* a field called Name that is not text is passed over for a later text field
C32_Witness ==
    /\ choosing.pc = "named"
    /\ choosing.fields = <<Field("Name", "textarea"), Field("Id", "id"),
                           Field("Code__c", "string")>>
    /\ choosing.name_field = "Code__c"

\* the priority fields that the metadata has, in priority order
PresentPreferred(fields) ==
    LET names == {fields[i].name : i \in DOMAIN fields}
    IN  SelectSeq(preferred_fields, LAMBDA name : name \in names)

\* C33: the default query fields start with the identifier, hold no field
\* twice and at most max_fields fields; the priority fields that the metadata
\* has come first, in priority order; the rest, when the list is still
\* short, are text, enumerated or boolean fields in the order of the metadata
C33_QueryFields ==
    choosing.pc = "chosen" =>
      LET fields == choosing.fields
          chosen == choosing.query_fields
          present == PresentPreferred(fields)
          taken == IF Len(present) < choosing.max_fields - 1
                   THEN Len(present) ELSE choosing.max_fields - 1
          position(name) == CHOOSE i \in DOMAIN fields : fields[i].name = name
      IN  /\ chosen[1] = "Id"
          /\ \A i, j \in DOMAIN chosen : chosen[i] = chosen[j] => i = j
          /\ Len(chosen) <= choosing.max_fields
          /\ Len(chosen) >= 1 + taken
          /\ \A i \in 1..taken : chosen[i + 1] = present[i]
          /\ \A i \in (taken + 2)..Len(chosen) :
                /\ \E k \in DOMAIN fields :
                      /\ fields[k].name = chosen[i]
                      /\ fields[k].type \in {"string", "picklist", "boolean"}
                /\ \A j \in (taken + 2)..Len(chosen) :
                      i < j => position(chosen[i]) < position(chosen[j])

\* a priority field and a fill field are chosen, and a priority field that is
\* text is not chosen a second time by the fill
C33_Witness ==
    /\ choosing.pc = "chosen"
    /\ choosing.max_fields = 3
    /\ choosing.fields = <<Field("Flag__c", "boolean"), Field("Subject", "string"),
                           Field("Notes__c", "textarea")>>
    /\ choosing.query_fields = <<"Id", "Subject", "Flag__c">>

\* C34: no failure of a remote request ends the session: a command during
\* which a request failed leaves the loop running, and the loop stops only
\* on exit, quit or the end of the input.
C34_OnlyExitEnds ==
    [][/\ (running /\ ~running') => last'.cmd = "exit"
       /\ (running /\ last'.requests > 0 /\ last'.outcome # "ok") => running']_vars

\* C35: whenever a current record is set, the current object type is set and
\* is the object type under which that record was fetched, the type that an
\* update of the record and a cd or related from it are addressed to.
C35_ObjectOfRecord ==
    current_record # NoRecord =>
        /\ current_object # None
        /\ current_object = current_record.Id.t

\* C36: after ls | sort has displayed a list, select n or the bare number n
\* selects the n-th record of the list as it was last displayed.
C36_SelectsDisplayed ==
    listing.pc = "selected" => listing.record_id = listing.result[listing.index].Id

\* C37: the total reported with the rows of a search is never smaller than
\* the number of rows returned.
C37_TotalCoversRows ==
    (call.pc \in {"done", "shown"} /\ ~call.raised) => call.total >= Len(call.results)

\* the requests of a kind that the call has sent so far
SentOf(kinds) == {i \in DOMAIN call.log : call.log[i].request.kind \in kinds}

\* C38: one search call sends at most one full-text request and at most one
\* fallback query, whatever the store answers, and a fallback query that
\* fails makes the call fail instead of being sent again.
C38_OneFallback ==
    /\ Cardinality(SentOf({"sosl"})) <= 1
    /\ Cardinality(SentOf({"soql"})) <= 1
    /\ \A i \in SentOf({"soql"}) :
          call.log[i].answer # "ok" =>
             (call.pc \in {"done", "shown"} /\ call.raised)

\* C39: whenever the breadcrumb is not empty, its first segment is the
\* "type:name" of the current record and its last segment is the relationship
\* name of the related list that the session holds.
C39_Breadcrumb ==
    navigation_path # <<>> =>
        /\ current_record # NoRecord
        /\ navigation_path[1] = current_object \o ":" \o RecordName(current_record)
        /\ navigation_path[Len(navigation_path)] = related_type

\* the display commands, by the name under which they end
DisplayCommands ==
    {"help", "clear", "ls", "ls_sort", "list", "view", "show", "fields",
     "relationships", "history", "describe", "query"}

\* C40: help, ls and dir with or without | sort, list, view, show, fields,
\* relationships, describe, history, query and clear leave the object type,
\* the result list, the record, the related list, the relationship name, the
\* navigation stack and the breadcrumb as they were, whether their requests
\* to the store succeed or fail.
C40_DisplayOnly ==
    [][last'.cmd \in DisplayCommands =>
          UNCHANGED <<current_object, current_records, current_record,
                      related_records, related_type, navigation_stack,
                      navigation_path>>]_vars

\* a query was answered, and a request of ls failed, on a record below a
\* stack of frames with a breadcrumb
C40_Witness ==
    /\ last.cmd \in {"query", "ls"}
    /\ last.requests = 1
    /\ last.outcome \in {"ok", "failed"}
    /\ current_record # NoRecord
    /\ navigation_stack # <<>>
====
